---- MODULE Spec2Model ----
(***************************************************************************)
(* A model of capytaine's Mesh entity (src/capytaine/mesh/mesh.py): the    *)
(* vertex and face arrays, the cache bundle __internals__, and the         *)
(* operations that mutate the arrays or fill and clear the cache.          *)
(*                                                                         *)
(* Representation.                                                         *)
(*  - A vertex is a triple of integers; the vertex array is a sequence of  *)
(*    vertices.  Vertex ids are 0-based as in the source: vertex id i is   *)
(*    the (i+1)-th element of the sequence.                                *)
(*  - A face is a 4-tuple of vertex ids; the face array is a sequence of   *)
(*    faces; face ids are 0-based.                                         *)
(*  - __internals__ is a function from the keys that are present to the    *)
(*    cached values.                                                       *)
(*  - Coordinates are integers, and every mesh of the model lies in a      *)
(*    plane orthogonal to a coordinate axis, so that all the quantities    *)
(*    of the face-property engine are exact rationals.                     *)
(***************************************************************************)
EXTENDS Integers, Sequences, FiniteSets, TLC

VARIABLES
    mesh,      \* the mesh in focus: [vertices, faces, internals]
    lastOp,    \* the last operation applied to it, with its arguments
    ctor,      \* a call of the constructor: its arguments and its outcome
    heal,      \* a call of heal_mesh: its position, and the steps run so far
    imm,       \* a call of get_immersed_part: its arguments, position and result
    names,     \* the class counter Mesh._ids and the meshes built so far, with their names
    pair       \* two meshes made one from the other, and the arrays they hold

vars == <<mesh, lastOp, ctor, heal, imm, names, pair>>

---------------------------------------------------------------------------
(* Bounds of the model.                                                    *)

\* Largest number of vertices of an input vertex array.
MaxV == 4
\* Coordinates stay in -MaxCoord..MaxCoord (guard of translate and mirror).
MaxCoord == 1

\* Largest number of rows of a face array handed to the constructor.
MaxCtorF == 2

\* Largest number of faces of a mesh handed to heal_mesh.
MaxHealF == 2

\* The planes of get_immersed_part lie at the elevations -MaxDepth..1, and
\* its meshes are moved down by 0..MaxShift.
MaxDepth == 7

MaxShift == 2

---------------------------------------------------------------------------
(* Integer vectors and exact rationals.                                    *)

Abs(x) == IF x < 0 THEN -x ELSE x

Sgn(x) == IF x < 0 THEN -1 ELSE IF x > 0 THEN 1 ELSE 0

Max2(a, b) == IF a >= b THEN a ELSE b

Add(a, b) == <<a[1] + b[1], a[2] + b[2], a[3] + b[3]>>

Sub(a, b) == <<a[1] - b[1], a[2] - b[2], a[3] - b[3]>>

Scale(k, a) == <<k * a[1], k * a[2], k * a[3]>>

Dot(a, b) == a[1] * b[1] + a[2] * b[2] + a[3] * b[3]

Cross(a, b) ==
    <<a[2] * b[3] - a[3] * b[2],
      a[3] * b[1] - a[1] * b[3],
      a[1] * b[2] - a[2] * b[1]>>

MatVec(R, v) == <<Dot(R[1], v), Dot(R[2], v), Dot(R[3], v)>>

Zero3 == <<0, 0, 0>>

RECURSIVE GcdNat(_, _)
GcdNat(a, b) == IF b = 0 THEN a ELSE GcdNat(b, a % b)

Gcd(a, b) == GcdNat(Abs(a), Abs(b))

\* Truncating division (the quotient rounds towards zero), exact when d divides n.
QuoT(n, d) == Sgn(n) * Sgn(d) * (Abs(n) \div Abs(d))

\* Euclidean norm of an integer vector whose norm is an integer (every vector
\* the model takes the norm of is parallel to a coordinate axis).
Norm(v) ==
    LET s == Abs(v[1]) + Abs(v[2]) + Abs(v[3])
    IN  IF s * s = Dot(v, v) THEN s ELSE CHOOSE r \in 0..s : r * r = Dot(v, v)

\* The rational vector num/den in lowest terms, den > 0; 0/0 (numpy's nan)
\* is kept as [num |-> Zero3, den |-> 0].
RatVec(num, den) ==
    IF den = 0 THEN [num |-> Zero3, den |-> 0]
    ELSE LET g == Gcd(Gcd(num[1], num[2]), Gcd(num[3], den))
         IN  [num |-> <<QuoT(num[1], g) * Sgn(den), QuoT(num[2], g) * Sgn(den),
                        QuoT(num[3], g) * Sgn(den)>>,
              den |-> Abs(den) \div g]

\* The rational number num/den in lowest terms; 0/0 is kept as 0/0.
Rat(num, den) ==
    IF den = 0 THEN [num |-> 0, den |-> 0]
    ELSE LET g == Gcd(num, den)
         IN  [num |-> QuoT(num, g) * Sgn(den), den |-> Abs(den) \div g]

---------------------------------------------------------------------------
(* Sequences, dictionaries and numpy indexing.                             *)

RECURSIVE SumInt(_, _)
\* f[1] + ... + f[n]
SumInt(f, n) == IF n = 0 THEN 0 ELSE f[n] + SumInt(f, n - 1)

RECURSIVE SumVec(_, _)
\* f[1] + ... + f[n], componentwise
SumVec(f, n) == IF n = 0 THEN Zero3 ELSE Add(f[n], SumVec(f, n - 1))

MaxOf(S) == CHOOSE x \in S : \A y \in S : y <= x

\* The array f with every entry computed (numpy arrays hold values, not
\* pending computations): the same function, tabulated once.
Tabulated(f) == f @@ <<>>

RECURSIVE SelectIdx(_, _, _)
\* The 0-based positions i < n with mask[i+1] true, ascending (np.where, and
\* np.arange(n)[mask]).
SelectIdx(mask, n, i) ==
    IF i = n THEN <<>>
    ELSE (IF mask[i + 1] THEN <<i>> ELSE <<>>) \o SelectIdx(mask, n, i + 1)

\* The empty dict.
EmptyDict == <<>>

\* dict.update(e)
DictUpdate(d, e) ==
    [k \in (DOMAIN d) \cup (DOMAIN e) |-> IF k \in DOMAIN e THEN e[k] ELSE d[k]]

\* del d[k] for every k of keys
DictDel(d, keys) == [k \in (DOMAIN d) \ keys |-> d[k]]

\* Whether numpy accepts i as an index into an array of length n.
IndexOK(i, n) == -n <= i /\ i < n

\* a[i] for a 0-based, possibly negative, numpy index i.
At(a, i) == a[(IF i < 0 THEN i + Len(a) ELSE i) + 1]

\* np.fliplr on one row.
FlipRow(face) == <<face[4], face[3], face[2], face[1]>>

---------------------------------------------------------------------------
(* The face-property engine (capytaine.mesh.mesh_properties, specified in  *)
(* section 4.2): each face is decomposed into a triangle fan from the      *)
(* average of its vertices.  With n the number of polygon vertices and c   *)
(* their average, the fan triangle i is (c, p_i, p_{i+1}).  All lengths    *)
(* are kept exact: x is 144 times the cross product of the triangle, w its *)
(* norm (288 times the triangle's area), g is 36 times its centroid.       *)

FacesPropertiesKeys ==
    {"faces_areas", "faces_centers", "faces_normals", "faces_radiuses"}

TrianglesQuadranglesKeys == {"triangles_ids", "quadrangles_ids"}

\* The polygon of a face: 3 vertices for a triangle (first id repeated last).
FacePolygon(face) ==
    IF face[1] = face[4] THEN <<face[1], face[2], face[3]>> ELSE face

FaceFan(V, face) ==
    LET poly == FacePolygon(face)
        n    == Len(poly)
        P    == [k \in 1..n |-> Scale(12, At(V, poly[k]))]
        c12  == Scale(12 \div n, SumVec([k \in 1..n |-> At(V, poly[k])], n))
        nxt(i) == IF i = n THEN 1 ELSE i + 1
    IN  Tabulated([i \in 1..n |->
           LET x == Cross(Sub(P[i], c12), Sub(P[nxt(i)], c12))
           IN  [x |-> x, w |-> Norm(x), g |-> Add(c12, Add(P[i], P[nxt(i)]))]])

\* The four properties of one face.
\*  faces_areas:    the sum of the areas of the fan's triangles.
\*  faces_centers:  the area-weighted mean of the centroids of the fan's
\*                  triangles.
\*  faces_normals:  the sum of the fan's cross products, normalised (0/0
\*                  for a face of zero vector area).
\*  faces_radiuses: the largest distance from the center to a vertex of the
\*                  face, kept as its square.
FaceProperties(V, face) ==
    LET fan  == FaceFan(V, face)
        n    == Len(fan)
        W    == SumInt([i \in 1..n |-> fan[i].w], n)
        N    == SumVec([i \in 1..n |-> fan[i].x], n)
        c    == RatVec(SumVec([i \in 1..n |-> Scale(fan[i].w, fan[i].g)], n), 36 * W)
        poly == FacePolygon(face)
        d(k) == LET r == Sub(Scale(c.den, At(V, poly[k])), c.num) IN Dot(r, r)
    IN  [faces_areas    |-> Rat(W, 288),
         faces_centers  |-> c,
         faces_normals  |-> RatVec(N, Norm(N)),
         faces_radiuses |-> Rat(MaxOf({d(k) : k \in DOMAIN poly}), c.den * c.den)]

\* Whether every vertex id of the face array can be used as an index into
\* the vertex array (otherwise the engine raises IndexError).
FacesIndexable(m) ==
    \A f \in DOMAIN m.faces : \A k \in 1..4 : IndexOK(m.faces[f][k], Len(m.vertices))

compute_faces_properties(m) ==
    LET P == Tabulated([f \in DOMAIN m.faces |->
                           FaceProperties(m.vertices, m.faces[f])])
    IN  [k \in FacesPropertiesKeys |-> [f \in DOMAIN m.faces |-> P[f][k]]]

\* Surface integrals (capytaine.mesh.surface_integrals): the moments of
\* order 0 and 1 of the surface, summed over the fan triangles of every
\* face: 288 times the area, and 288 * 36 times the integrals of x, y, z.
compute_faces_integrals(m) ==
    LET fan == Tabulated([f \in DOMAIN m.faces |->
                             FaceFan(m.vertices, m.faces[f])])
        m0  == [f \in DOMAIN m.faces |->
                  SumInt([i \in DOMAIN fan[f] |-> fan[f][i].w], Len(fan[f]))]
        m1  == [f \in DOMAIN m.faces |->
                  SumVec([i \in DOMAIN fan[f] |-> Scale(fan[f][i].w, fan[f][i].g)],
                         Len(fan[f]))]
    IN  <<SumInt(m0, Len(m.faces)), SumVec(m1, Len(m.faces))>>

---------------------------------------------------------------------------
(* The connectivity engine (capytaine.mesh.mesh_properties.connectivity): *)
(* one pass over the faces and their edges.                                *)

\* The directed edges of a face.
FaceEdges(face) ==
    LET poly == FacePolygon(face)
        n == Len(poly)
    IN  {<<poly[k], poly[IF k = n THEN 1 ELSE k + 1]>> : k \in 1..n}

\* Two faces sharing an edge, whatever its direction.
Adjacent(a, b) ==
    \E e \in FaceEdges(a) : e \in FaceEdges(b) \/ <<e[2], e[1]>> \in FaceEdges(b)

ConnectivityKeys == {"v_v", "v_f", "f_f", "boundaries"}

\* The directed edges of face f of the mesh (f counted from 1).
EdgesOfFace(m, f) == FaceEdges(m.faces[f])

\* The boundary edges: the edges touched by exactly one face.
BoundaryEdges(m) ==
    {e \in UNION {EdgesOfFace(m, f) : f \in DOMAIN m.faces} :
        Cardinality({f \in DOMAIN m.faces :
                        e \in EdgesOfFace(m, f) \/ <<e[2], e[1]>> \in EdgesOfFace(m, f)}) = 1}

RECURSIVE FollowBoundary(_, _)
\* The loop started as `loop`, continued along the edges of E: the next
\* boundary edge sharing the current endpoint is followed until the loop's
\* start comes back or no edge continues the chain.
FollowBoundary(E, loop) ==
    LET here == loop[Len(loop)]
        out  == {e \in E : e[1] = here}
    IN  IF out = {} THEN loop
        ELSE LET e == CHOOSE x \in out : \A y \in out : x[2] <= y[2]
             IN  IF e[2] = loop[1] THEN loop
                 ELSE FollowBoundary(E \ {e}, Append(loop, e[2]))

RECURSIVE BoundaryLoops(_)
\* The boundary edges E linked into loops, each loop started at the
\* smallest vertex id not yet used.
BoundaryLoops(E) ==
    IF E = {} THEN <<>>
    ELSE LET start == CHOOSE v \in {e[1] : e \in E} : \A e \in E : v <= e[1]
             loop  == FollowBoundary(E, <<start>>)
             used  == {<<loop[i], loop[IF i = Len(loop) THEN 1 ELSE i + 1]>> :
                          i \in DOMAIN loop}
             rest  == {e \in E : e \notin used /\ e[1] /= start}
         IN  <<loop>> \o BoundaryLoops(rest)

\* connectivity(mesh): the four connectivity tables of the mesh, keyed by
\* vertex ids as they stand in the face array and by face ids from 0.
connectivity(m) ==
    LET ids   == UNION {{m.faces[f][k] : k \in 1..4} : f \in DOMAIN m.faces}
        edges == UNION {EdgesOfFace(m, f) : f \in DOMAIN m.faces}
        v_v   == [v \in ids |-> {w \in ids : w /= v /\ (<<v, w>> \in edges \/ <<w, v>> \in edges)}]
        v_f   == [v \in ids |->
                    {f - 1 : f \in {g \in DOMAIN m.faces : \E k \in 1..4 : m.faces[g][k] = v}}]
        f_f   == [f \in 0..(Len(m.faces) - 1) |->
                    {g - 1 : g \in {h \in DOMAIN m.faces :
                                       h /= f + 1 /\ Adjacent(m.faces[f + 1], m.faces[h])}}]
    IN  [k \in ConnectivityKeys |->
           CASE k = "v_v" -> v_v
             [] k = "v_f" -> v_f
             [] k = "f_f" -> f_f
             [] OTHER     -> BoundaryLoops(BoundaryEdges(m))]

---------------------------------------------------------------------------
(* The Mesh entity.  A mesh is a record [vertices, faces, internals]; each *)
(* method is an operator from the mesh before the call to the mesh after.  *)

\* The state Mesh.__init__ leaves behind for arrays that pass its checks.
NewMesh(V, F) == [vertices |-> V, faces |-> F, internals |-> EmptyDict]

nb_vertices(m) == Len(m.vertices)

nb_faces(m) == Len(m.faces)

\* vertices.setter: a copy of the value, and the cache is cleared.
vertices_setter(m, value) ==
    [m EXCEPT !.vertices = value, !.internals = EmptyDict]

\* np.asarray(value, dtype=np.int) on one entry given in halves (h stands
\* for h/2): the cast to int drops the fractional part.
AsInt(h) == QuoT(h, 2)

\* faces.setter: a copy of the value cast to int, and the cache is cleared.
\* The value is given in halves.
faces_setter(m, value) ==
    [m EXCEPT !.faces = [f \in DOMAIN value |->
                           [k \in DOMAIN value[f] |-> AsInt(value[f][k])]],
              !.internals = EmptyDict]

has_faces_properties(m) == "faces_areas" \in DOMAIN m.internals

remove_faces_properties(m) ==
    IF has_faces_properties(m)
    THEN [m EXCEPT !.internals = DictDel(m.internals, FacesPropertiesKeys)]
    ELSE m

\* A getter that stores only the property it was asked for.
faces_property_key_only(m, key) ==
    IF key \notin DOMAIN m.internals
    THEN [m EXCEPT !.internals =
            DictUpdate(m.internals,
                       [k \in {key} |-> compute_faces_properties(m)[k]])]
    ELSE m

\* The getters faces_areas, faces_centers, faces_normals, faces_radiuses:
\* the mesh after reading the property key.
faces_property(m, key) ==
    IF key \notin DOMAIN m.internals
    THEN [m EXCEPT !.internals = DictUpdate(m.internals, compute_faces_properties(m))]
    ELSE m

\* The number of calls of compute_faces_properties a read of the property
\* key makes.
faces_property_computations(m, key) ==
    IF key \notin DOMAIN m.internals THEN 1 ELSE 0

is_triangle(m, face_id) == At(m.faces, face_id)[1] = At(m.faces, face_id)[4]

\* _triangles_quadrangles
triangles_quadrangles(m) ==
    LET nf            == Len(m.faces)
        triangle_mask == [f \in 1..nf |-> m.faces[f][1] = m.faces[f][4]]
        quadrangles_mask == [f \in 1..nf |-> ~triangle_mask[f]]
    IN  [m EXCEPT !.internals =
           DictUpdate(m.internals,
                      [k \in TrianglesQuadranglesKeys |->
                         IF k = "triangles_ids"
                         THEN SelectIdx(triangle_mask, nf, 0)
                         ELSE SelectIdx(quadrangles_mask, nf, 0)])]

has_triangles_quadrangles(m) == "triangles_ids" \in DOMAIN m.internals

\* The getters triangles_ids, nb_triangles, quadrangles_ids, nb_quadrangles:
\* the mesh after the read.
read_triangles_quadrangles(m) ==
    IF "triangles_ids" \notin DOMAIN m.internals THEN triangles_quadrangles(m) ELSE m

has_surface_integrals(m) == "surface_integrals" \in DOMAIN m.internals

\* _has_connectivity
has_connectivity(m) == "v_v" \in DOMAIN m.internals

\* The getters vv, vf, ff, boundaries and nb_boundaries: the mesh after a
\* read of the entry `key`.
connectivity_property(m, key) ==
    IF key \notin DOMAIN m.internals
    THEN [m EXCEPT !.internals = DictUpdate(m.internals, connectivity(m))]
    ELSE m

get_surface_integrals(m) ==
    IF ~has_surface_integrals(m)
    THEN [m EXCEPT !.internals =
            DictUpdate(m.internals,
                       [k \in {"surface_integrals"} |-> compute_faces_integrals(m)])]
    ELSE m

remove_surface_integrals(m) ==
    IF "surface_integrals" \in DOMAIN m.internals
    THEN [m EXCEPT !.internals = DictDel(m.internals, {"surface_integrals"})]
    ELSE m

\* centers += vector, on the cached array of centers
ShiftCenters(centers, vector) ==
    [f \in DOMAIN centers |->
       RatVec(Add(centers[f].num, Scale(centers[f].den, vector)), centers[f].den)]

\* np.transpose(np.dot(rot_matrix, a.T)) on a cached array of rational vectors
RotateRows(rot_matrix, a) ==
    [f \in DOMAIN a |-> [num |-> MatVec(rot_matrix, a[f].num), den |-> a[f].den]]

\* a *= -1 on a cached array of rational vectors
NegateRows(a) == [f \in DOMAIN a |-> [num |-> Scale(-1, a[f].num), den |-> a[f].den]]

\* translate moving the vertices by the absolute values of the vector's
\* components.
translate_by_magnitude(m, vector) ==
    LET shift == <<Abs(vector[1]), Abs(vector[2]), Abs(vector[3])>>
        m1 == vertices_setter(m, [i \in DOMAIN m.vertices |-> Add(m.vertices[i], shift)])
        m2 == IF has_faces_properties(m1)
              THEN [m1 EXCEPT !.internals["faces_centers"] =
                      ShiftCenters(m1.internals["faces_centers"], shift)]
              ELSE m1
    IN  IF has_surface_integrals(m2) THEN remove_surface_integrals(m2) ELSE m2

translate(m, vector) ==
    LET m1 == vertices_setter(m, [i \in DOMAIN m.vertices |-> Add(m.vertices[i], vector)])
        m2 == IF has_faces_properties(m1)
              THEN [m1 EXCEPT !.internals["faces_centers"] =
                      ShiftCenters(m1.internals["faces_centers"], vector)]
              ELSE m1
    IN  IF has_surface_integrals(m2) THEN remove_surface_integrals(m2) ELSE m2

\* rotate without the removal of the cached surface integrals.
rotate_keeps_integrals(m, rot_matrix) ==
    LET m1 == [m EXCEPT !.vertices =
                 [i \in DOMAIN m.vertices |-> MatVec(rot_matrix, m.vertices[i])]]
    IN  IF has_faces_properties(m1)
        THEN [m1 EXCEPT
                !.internals["faces_normals"] =
                    RotateRows(rot_matrix, m1.internals["faces_normals"]),
                !.internals["faces_centers"] =
                    RotateRows(rot_matrix, m1.internals["faces_centers"])]
        ELSE m1

rotate(m, rot_matrix) ==
    LET m1 == [m EXCEPT !.vertices =
                 [i \in DOMAIN m.vertices |-> MatVec(rot_matrix, m.vertices[i])]]
        m2 == IF has_faces_properties(m1)
              THEN [m1 EXCEPT
                      !.internals["faces_normals"] =
                          RotateRows(rot_matrix, m1.internals["faces_normals"]),
                      !.internals["faces_centers"] =
                          RotateRows(rot_matrix, m1.internals["faces_centers"])]
              ELSE m1
    IN  IF has_surface_integrals(m2) THEN remove_surface_integrals(m2) ELSE m2

\* flip_normals exchanging only the first and last vertex of each row.
flip_normals_swaps_ends(m) ==
    LET m1 == [m EXCEPT !.faces = [f \in DOMAIN m.faces |->
                  <<m.faces[f][4], m.faces[f][2], m.faces[f][3], m.faces[f][1]>>]]
        m2 == IF has_faces_properties(m1)
              THEN [m1 EXCEPT !.internals["faces_normals"] =
                      NegateRows(m1.internals["faces_normals"])]
              ELSE m1
    IN  IF has_surface_integrals(m2) THEN remove_surface_integrals(m2) ELSE m2

\* flip_normals rolling each row by one place instead of reversing it (the
\* orientation is flipped for no face, and a triangle's repeated vertex
\* leaves the first and last columns).
flip_normals_roll(m) ==
    LET m1 == [m EXCEPT !.faces = [f \in DOMAIN m.faces |->
                  <<m.faces[f][4], m.faces[f][1], m.faces[f][2], m.faces[f][3]>>]]
        m2 == IF has_faces_properties(m1)
              THEN [m1 EXCEPT !.internals["faces_normals"] =
                      NegateRows(m1.internals["faces_normals"])]
              ELSE m1
    IN  IF has_surface_integrals(m2) THEN remove_surface_integrals(m2) ELSE m2

\* flip_normals without the update of the cached normals.
flip_normals_stale_normals(m) ==
    LET m1 == [m EXCEPT !.faces = [f \in DOMAIN m.faces |-> FlipRow(m.faces[f])]]
    IN  IF has_surface_integrals(m1) THEN remove_surface_integrals(m1) ELSE m1

flip_normals(m) ==
    LET m1 == [m EXCEPT !.faces = [f \in DOMAIN m.faces |-> FlipRow(m.faces[f])]]
        m2 == IF has_faces_properties(m1)
              THEN [m1 EXCEPT !.internals["faces_normals"] =
                      NegateRows(m1.internals["faces_normals"])]
              ELSE m1
    IN  IF has_surface_integrals(m2) THEN remove_surface_integrals(m2) ELSE m2

\* The reflection of v across the plane {x : x . normal = c}.
MirrorPoint(v, plane) ==
    Sub(v, Scale(2 * (Dot(v, plane.normal) - plane.c), plane.normal))

\* mirror without the call to flip_normals.
mirror_without_flip(m, plane) ==
    LET m1 == vertices_setter(m, [i \in DOMAIN m.vertices |->
                                    MirrorPoint(m.vertices[i], plane)])
    IN  [m1 EXCEPT !.internals = EmptyDict]

mirror(m, plane) ==
    LET m1 == vertices_setter(m, [i \in DOMAIN m.vertices |->
                                    MirrorPoint(m.vertices[i], plane)])
        m2 == flip_normals(m1)
    IN  [m2 EXCEPT !.internals = EmptyDict]

\* triangulate_quadrangles with the two triangles swapped: the slot takes
\* (v0 v1 v2) and (v0 v2 v3) is appended.
triangulate_quadrangles_swapped(m) ==
    LET m1   == read_triangles_quadrangles(m)
        qids == m1.internals["quadrangles_ids"]
        isq  == [f \in DOMAIN m.faces |-> \E j \in DOMAIN qids : qids[j] = f - 1]
        new_faces == [j \in DOMAIN qids |->
                        LET q == m.faces[qids[j] + 1]
                        IN  <<q[1], q[3], q[4], q[1]>>]
        faces == [f \in DOMAIN m.faces |->
                    IF isq[f]
                    THEN LET q == m.faces[f] IN <<q[1], q[2], q[3], q[1]>>
                    ELSE m.faces[f]]
    IN  [m1 EXCEPT !.internals = EmptyDict, !.faces = faces \o new_faces]

\* triangulate_quadrangles without self.__internals__.clear().
triangulate_quadrangles_no_clear(m) ==
    LET m1   == read_triangles_quadrangles(m)
        qids == m1.internals["quadrangles_ids"]
        isq  == [f \in DOMAIN m.faces |-> \E j \in DOMAIN qids : qids[j] = f - 1]
        new_faces == [j \in DOMAIN qids |->
                        LET q == m.faces[qids[j] + 1]
                        IN  <<q[1], q[2], q[3], q[1]>>]
        faces == [f \in DOMAIN m.faces |->
                    IF isq[f]
                    THEN LET q == m.faces[f] IN <<q[1], q[3], q[4], q[1]>>
                    ELSE m.faces[f]]
    IN  [m1 EXCEPT !.faces = faces \o new_faces]

triangulate_quadrangles(m) ==
    LET m1   == read_triangles_quadrangles(m)
        qids == m1.internals["quadrangles_ids"]
        isq  == [f \in DOMAIN m.faces |-> \E j \in DOMAIN qids : qids[j] = f - 1]
        \* new_faces = faces[quadrangles_ids].copy(); columns 0..2 keep
        \* (v0, v1, v2) and the last column takes the first
        new_faces == [j \in DOMAIN qids |->
                        LET q == m.faces[qids[j] + 1]
                        IN  <<q[1], q[2], q[3], q[1]>>]
        \* faces[quadrangles_ids, :3] = faces[:, t2][quadrangles_ids], then
        \* faces[quadrangles_ids, -1] = faces[quadrangles_ids, 0]
        faces == [f \in DOMAIN m.faces |->
                    IF isq[f]
                    THEN LET q == m.faces[f] IN <<q[1], q[3], q[4], q[1]>>
                    ELSE m.faces[f]]
    IN  [m1 EXCEPT !.internals = EmptyDict, !.faces = faces \o new_faces]

\* Mesh.__init__.  An array argument is a record [shape, rows]: its numpy
\* shape and, for a 2-dimensional array, its rows; the entries of a face
\* array are given in halves (h stands for h/2), so that a non-integral
\* entry can be told from an integral one.
\*
\* The first assert iterates "for face in faces for vertex_id in face" and
\* raises on a non-empty 1-dimensional array (a number is not iterable), on
\* an array of 3 or more dimensions (int() of a sequence; the arrays of the
\* model have no axis of length 1 after the second), and on an entry with
\* int(x) /= x or x < 0.
init_entries_ok(faces) ==
    IF faces.shape[1] = 0 THEN TRUE
    ELSE IF Len(faces.shape) = 2
    THEN \A f \in DOMAIN faces.rows : \A k \in DOMAIN faces.rows[f] :
            LET h == faces.rows[f][k] IN 2 * AsInt(h) = h /\ h >= 0
    ELSE Len(faces.shape) >= 3 /\ faces.shape[2] = 0

\* assert self._vertices.shape[1] == 3 (IndexError on a 1-dimensional array)
init_vertices_shape_ok(vertices) ==
    Len(vertices.shape) >= 2 /\ vertices.shape[2] = 3

\* assert self._faces.shape[1] == 4
init_faces_shape_ok(faces) ==
    Len(faces.shape) >= 2 /\ faces.shape[2] = 4

\* self._faces.max(), for a 2-dimensional non-empty face array
FacesMax(faces) ==
    MaxOf({AsInt(faces.rows[f][k]) : f \in DOMAIN faces.rows, k \in 1..4})

\* assert len(self._faces) == 0 or self._faces.max()+1 <= len(self._vertices)
init_faces_range_ok(vertices, faces) ==
    IF faces.shape[1] = 0 THEN TRUE
    ELSE Len(faces.shape) = 2 /\ FacesMax(faces) + 1 <= vertices.shape[1]

\* Whether Mesh(vertices, faces) returns a mesh (no assert fails, nothing raises).
init_accepts(vertices, faces) ==
    /\ init_entries_ok(faces)
    /\ init_vertices_shape_ok(vertices)
    /\ init_faces_shape_ok(faces)
    /\ init_faces_range_ok(vertices, faces)

\* The 2-dimensional arrays of a vertex sequence and of a face sequence.
VertexArray(V) == [shape |-> <<Len(V), 3>>, rows |-> V]

FaceArray(F) ==
    [shape |-> <<Len(F), 4>>,
     rows  |-> [f \in DOMAIN F |-> [k \in DOMAIN F[f] |-> 2 * F[f][k]]]]

\* Mesh(vertices, faces) for arrays that init_accepts.
Mesh_init(vertices, faces) ==
    NewMesh(vertices.rows,
            [f \in DOMAIN faces.rows |->
               [k \in DOMAIN faces.rows[f] |-> AsInt(faces.rows[f][k])]])

\* Whether extract_faces raises IndexError: a face id that is no index into
\* the face array, or a vertex id of a selected face that is no index into
\* the vertex array.
extract_faces_raises(m, id_faces_to_extract) ==
    \E j \in DOMAIN id_faces_to_extract :
        \/ ~IndexOK(id_faces_to_extract[j], Len(m.faces))
        \/ \E k \in 1..4 :
             ~IndexOK(At(m.faces, id_faces_to_extract[j])[k], Len(m.vertices))

\* id_v of extract_faces: the ids of the vertices to keep, ascending.
extract_id_v(m, id_faces_to_extract) ==
    LET nv   == nb_vertices(m)
        norm(i) == IF i < 0 THEN i + nv ELSE i
        vertices_mask ==
            [i \in 1..nv |->
               \E j \in DOMAIN id_faces_to_extract : \E k \in 1..4 :
                  norm(At(m.faces, id_faces_to_extract[j])[k]) = i - 1]
    IN  SelectIdx(vertices_mask, nv, 0)

\* The mesh extract_faces builds (its name aside), when it does not raise.
extract_faces(m, id_faces_to_extract) ==
    LET nv   == nb_vertices(m)
        id_v == extract_id_v(m, id_faces_to_extract)
        v_extracted == [i \in DOMAIN id_v |-> m.vertices[id_v[i] + 1]]
        \* new_id__v = np.arange(nv); new_id__v[id_v] = np.arange(len(id_v))
        new_id__v == [i \in 1..nv |->
                        IF \E j \in DOMAIN id_v : id_v[j] = i - 1
                        THEN (CHOOSE j \in DOMAIN id_v : id_v[j] = i - 1) - 1
                        ELSE i - 1]
        faces_extracted ==
            [j \in DOMAIN id_faces_to_extract |->
               [k \in 1..4 |->
                  At(new_id__v, At(m.faces, id_faces_to_extract[j])[k])]]
    IN  Mesh_init(VertexArray(v_extracted), FaceArray(faces_extracted))

---------------------------------------------------------------------------
(* Inputs of the operations.                                               *)

\* The i-th point handed to a vertex array (0-based): the corners of the
\* unit square of the plane y = 0, over and over.
BasePoint(i) ==
    CASE i % 4 = 0 -> <<0, 0, 0>>
      [] i % 4 = 1 -> <<1, 0, 0>>
      [] i % 4 = 2 -> <<1, 0, 1>>
      [] i % 4 = 3 -> <<0, 0, 1>>

\* The vertex arrays given to the constructor and to the vertices setter.
VertexArrays == {[i \in 1..n |-> BasePoint(i - 1)] : n \in 0..MaxV}

\* Rows of the face arrays given to the constructor and to the faces setter,
\* in halves: the quadrangle (0 1 2 3), the triangle (0 1 2 0), the
\* quadrangle (-1 0 1 2) with a negative id, and the row (1/2 1 2 0) with a
\* non-integral entry.
RowA == <<0, 2, 4, 6>>

RowT == <<0, 2, 4, 0>>

RowN == <<-2, 0, 2, 4>>

RowH == <<1, 2, 4, 0>>

\* The face arrays given to the constructor and to the faces setter.
InputFaces ==
    {<<>>, <<RowA>>, <<RowT>>, <<RowH>>, <<RowT, RowA>>, <<RowA, RowN>>}

RECURSIVE SeqsUpTo(_, _)
\* The sequences of at most n elements of S.
SeqsUpTo(S, n) ==
    IF n = 0 THEN {<<>>}
    ELSE LET shorter == SeqsUpTo(S, n - 1)
         IN  shorter \cup {Append(q, x) : q \in shorter, x \in S}

Translations == {<<1, 0, 0>>, <<-1, 0, 0>>}

\* The rotation matrix of a half turn about the x axis.
Rotations == {<< <<1, 0, 0>>, <<0, -1, 0>>, <<0, 0, -1>> >>}

\* The plane z = 0.
MirrorPlanes == {[normal |-> <<0, 0, 1>>, c |-> 0]}

InBox(V) ==
    \A i \in DOMAIN V : \A k \in 1..3 : -MaxCoord <= V[i][k] /\ V[i][k] <= MaxCoord

\* No call of the constructor yet.
NoCall == [state |-> "none"]

\* heal_mesh not called yet: no step run, first call.
NoHeal == [pc |-> 0, log |-> <<>>, round |-> 1, healed |-> <<>>]

\* The name of the mesh in focus, and of a mesh made by another component.
SelfName == <<"mesh_0">>

OtherName == <<"mesh_1">>

\* A mesh with its name, as get_immersed_part returns it.
Named(m, name) ==
    [vertices |-> m.vertices, faces |-> m.faces, internals |-> m.internals, name |-> name]

\* get_immersed_part not called yet.
NoImmersed ==
    [pc |-> 0, free_surface |-> 0, sea_bottom |-> 0, log |-> <<>>,
     result |-> "not called", out |-> Named(NewMesh(<<>>, <<>>), <<>>),
     self_name |-> SelfName]

\* No mesh built yet and the counter at its start (itertools.count(0)).
NoNames == [ids |-> 0, meshes |-> <<>>, calls |-> 0]

\* No second mesh made yet.
NoPair ==
    [made |-> "none", m2 |-> NewMesh(<<>>, <<>>), shared |-> {}, flip |-> FALSE,
     ids |-> <<>>, target |-> "none", op |-> "none", ops |-> 0]

\* An argument of the constructor: None (the default) or an array-like.
None == [given |-> FALSE]

Arg(a) == [given |-> TRUE, value |-> a]

\* if vertices is None: vertices = np.zeros((0, 3))
init_vertices(vertices) ==
    IF vertices.given THEN vertices.value ELSE [shape |-> <<0, 3>>, rows |-> <<>>]

\* if faces is None: faces = np.zeros((0, 4))
init_faces(faces) ==
    IF faces.given THEN faces.value ELSE [shape |-> <<0, 4>>, rows |-> <<>>]

\* Vertex arguments: None, and for each length n the shapes (n,), (n,2),
\* (n,3), (n,4) and (n,3,2).  The constructor reads nothing but the shape of
\* the vertex array, so only the well-shaped arrays carry their rows.
CtorVertexArgs ==
    {None} \cup
    {Arg(VertexArray([i \in 1..n |-> BasePoint(i - 1)])) : n \in 0..MaxV} \cup
    {Arg([shape |-> sh, rows |-> <<>>]) :
        sh \in UNION {{<<n>>, <<n, 2>>, <<n, 4>>, <<n, 3, 2>>} : n \in 0..MaxV}}

\* Rows of a face argument, entries in halves: a triangle, a quadrangle, a row
\* of zeros, a row with a negative entry, a row with the entry 0.5.
CtorRows == {RowT, RowA, <<0, 0, 0, 0>>, RowN, RowH}

\* Face arguments: None, the arrays of at most MaxCtorF rows of CtorRows, and
\* for each length m the shapes (m,), (m,3), (m,5) and (m,4,2) with valid
\* entries.
CtorFaceArgs ==
    {None} \cup
    {Arg([shape |-> <<Len(F), 4>>, rows |-> F]) : F \in SeqsUpTo(CtorRows, MaxCtorF)} \cup
    {Arg([shape |-> <<m, c>>, rows |-> [f \in 1..m |-> [k \in 1..c |-> 0]]]) :
        m \in 0..MaxCtorF, c \in {3, 5}} \cup
    {Arg([shape |-> sh, rows |-> <<>>]) :
        sh \in UNION {{<<m>>, <<m, 4, 2>>} : m \in 0..MaxCtorF}}

---------------------------------------------------------------------------
(* The state machine of one mesh.                                          *)

\* The record of a call: its name and argument (for triangulate_quadrangles
\* the number of quadrangles it logs as split), and for an operation that
\* keeps or clears the cache surgically, whether the face properties and the
\* triangle/quadrangle ids were cached before it.
Op(name, arg) ==
    [op |-> name, arg |-> arg, err |-> FALSE,
     had |-> <<has_faces_properties(mesh), "triangles_ids" \in DOMAIN mesh.internals>>,
     had_integrals |-> has_surface_integrals(mesh),
     had_connectivity |-> has_connectivity(mesh), computed |-> 0]

OpPlain(name) ==
    [op |-> name, arg |-> <<>>, err |-> FALSE, had |-> <<FALSE, FALSE>>,
     had_integrals |-> FALSE, had_connectivity |-> FALSE, computed |-> 0]

Init ==
    /\ \E V \in VertexArrays : \E F \in InputFaces :
          /\ init_accepts(VertexArray(V), [shape |-> <<Len(F), 4>>, rows |-> F])
          /\ mesh = Mesh_init(VertexArray(V), [shape |-> <<Len(F), 4>>, rows |-> F])
    /\ lastOp = OpPlain("init")
    /\ ctor = NoCall
    /\ heal = NoHeal
    /\ imm = NoImmersed
    /\ names = NoNames
    /\ pair = NoPair

SetVertices ==
    /\ UNCHANGED <<ctor, heal, imm, names, pair>>
    /\ \E V \in VertexArrays :
           /\ mesh' = vertices_setter(mesh, V)
           /\ lastOp' = OpPlain("vertices")

SetFaces ==
    /\ UNCHANGED <<ctor, heal, imm, names, pair>>
    /\ \E F \in InputFaces :
           /\ mesh' = faces_setter(mesh, F)
           /\ lastOp' = OpPlain("faces")

Translate ==
    /\ UNCHANGED <<ctor, heal, imm, names, pair>>
    /\ \E vector \in Translations :
           LET after == translate(mesh, vector)
           IN  /\ InBox(after.vertices)
               /\ mesh' = after
               /\ lastOp' = Op("translate", vector)

Rotate ==
    /\ UNCHANGED <<ctor, heal, imm, names, pair>>
    /\ \E rot_matrix \in Rotations :
           /\ mesh' = rotate(mesh, rot_matrix)
           /\ lastOp' = Op("rotate", <<>>)

FlipNormals ==
    /\ UNCHANGED <<ctor, heal, imm, names, pair>>
    /\ /\ mesh' = flip_normals(mesh)
       /\ lastOp' = Op("flip_normals", <<>>)

Mirror ==
    /\ UNCHANGED <<ctor, heal, imm, names, pair>>
    /\ \E plane \in MirrorPlanes :
           LET after == mirror(mesh, plane)
           IN  /\ InBox(after.vertices)
               /\ mesh' = after
               /\ lastOp' = Op("mirror", <<>>)

TriangulateQuadrangles ==
    /\ UNCHANGED <<ctor, heal, imm, names, pair>>
    /\ /\ mesh' = triangulate_quadrangles(mesh)
       /\ lastOp' = Op("triangulate_quadrangles",
                        Len(read_triangles_quadrangles(mesh).internals["quadrangles_ids"]))

\* A read of faces_areas, faces_centers, faces_normals or faces_radiuses.  The
\* engine raises when a vertex id is no index into the vertex array, and the
\* mesh is then as before.
ReadFacesProperty ==
    /\ UNCHANGED <<ctor, heal, imm, names, pair>>
    /\ \E key \in FacesPropertiesKeys :
           IF key \in DOMAIN mesh.internals \/ FacesIndexable(mesh)
           THEN /\ mesh' = faces_property(mesh, key)
                /\ lastOp' = [OpPlain("faces_property") EXCEPT
                                 !.arg = key,
                                 !.computed = faces_property_computations(mesh, key)]
           ELSE /\ mesh' = mesh
                /\ lastOp' = [OpPlain("faces_property") EXCEPT !.err = TRUE]

\* A read of triangles_ids, nb_triangles, quadrangles_ids or nb_quadrangles.
ReadTrianglesQuadrangles ==
    /\ UNCHANGED <<ctor, heal, imm, names, pair>>
    /\ /\ mesh' = read_triangles_quadrangles(mesh)
       /\ lastOp' = OpPlain("triangles_quadrangles")

GetSurfaceIntegrals ==
    /\ UNCHANGED <<ctor, heal, imm, names, pair>>
    /\ IF has_surface_integrals(mesh) \/ FacesIndexable(mesh)
       THEN /\ mesh' = get_surface_integrals(mesh)
            /\ lastOp' = OpPlain("get_surface_integrals")
       ELSE /\ mesh' = mesh
            /\ lastOp' = [OpPlain("get_surface_integrals") EXCEPT !.err = TRUE]

\* A read of vv, vf, ff, boundaries or nb_boundaries.
ReadConnectivity ==
    /\ UNCHANGED <<ctor, heal, imm, names, pair>>
    /\ \E key \in ConnectivityKeys :
           /\ mesh' = connectivity_property(mesh, key)
           /\ lastOp' = OpPlain("connectivity")

Next ==
    \/ SetVertices
    \/ SetFaces
    \/ Translate
    \/ Rotate
    \/ FlipNormals
    \/ Mirror
    \/ TriangulateQuadrangles
    \/ ReadFacesProperty
    \/ ReadTrianglesQuadrangles
    \/ GetSurfaceIntegrals

Spec == Init /\ [][Next]_vars

\* The mesh with its connectivity tables read as well; the vertices change
\* through rotate and mirror only.
NextConnectivity ==
    \/ SetFaces
    \/ Rotate
    \/ FlipNormals
    \/ Mirror
    \/ TriangulateQuadrangles
    \/ ReadFacesProperty
    \/ ReadTrianglesQuadrangles
    \/ GetSurfaceIntegrals
    \/ ReadConnectivity

SpecConnectivity == Init /\ [][NextConnectivity]_vars

---------------------------------------------------------------------------
(* The constructor, as a function of its arguments: one call per behaviour. *)

InitCtor ==
    /\ mesh = NewMesh(<<>>, <<>>)
    /\ lastOp = OpPlain("init")
    /\ heal = NoHeal
    /\ imm = NoImmersed
    /\ names = NoNames
    /\ pair = NoPair
    /\ \E vertices \in CtorVertexArgs : \E faces \in CtorFaceArgs :
           ctor = [state |-> "called", vertices |-> vertices, faces |-> faces]

\* Mesh(vertices, faces): the asserts in their order, then the new mesh.
Construct ==
    /\ ctor.state = "called"
    /\ LET vertices == init_vertices(ctor.vertices)
           faces == init_faces(ctor.faces)
       IN  IF init_accepts(vertices, faces)
           THEN /\ ctor' = [ctor EXCEPT !.state = "returned"]
                /\ mesh' = IF Len(vertices.shape) = 2 THEN Mesh_init(vertices, faces) ELSE mesh
           ELSE /\ ctor' = [ctor EXCEPT !.state = "raised"]
                /\ mesh' = mesh
    /\ lastOp' = OpPlain("init")
    /\ UNCHANGED <<heal, imm, names, pair>>

NextCtor ==
    \/ Construct

SpecCtor == InitCtor /\ [][NextCtor]_vars

---------------------------------------------------------------------------
(* Mesh healing (capytaine.mesh.mesh_quality, specified in section 4.4).   *)
(* The tolerances are below the smallest distance and the smallest area    *)
(* of the meshes considered, so "closer than the tolerance" is equality    *)
(* and "area below the tolerance" is a zero area.                          *)

\* The vertex ids referenced by some face.
UsedVertices(m) ==
    {m.faces[f][k] : f \in DOMAIN m.faces, k \in 1..4}

\* Remove unused vertices: the vertices referenced by no face are dropped
\* and the faces are renumbered.
remove_unused_vertices(m) ==
    LET nv     == Len(m.vertices)
        used_v == [i \in 1..nv |-> (i - 1) \in UsedVertices(m)]
        kept   == SelectIdx(used_v, nv, 0)
        new_id_v(v) == CHOOSE j \in 0..(Len(kept) - 1) : kept[j + 1] = v
    IN  [m EXCEPT !.vertices = [j \in DOMAIN kept |-> m.vertices[kept[j] + 1]],
                  !.faces = [f \in DOMAIN m.faces |->
                               [k \in 1..4 |-> new_id_v(m.faces[f][k])]],
                  !.internals = EmptyDict]

\* A face of zero area, or with fewer than three distinct vertex ids.
IsDegenerated(V, face) ==
    \/ Cardinality({face[k] : k \in 1..4}) < 3
    \/ FaceProperties(V, face).faces_areas.num = 0

\* Remove degenerate faces: they are dropped, the vertex array is kept.
remove_degenerated_faces(m) ==
    LET nf   == Len(m.faces)
        keep == [f \in 1..nf |-> ~IsDegenerated(m.vertices, m.faces[f])]
        kept == SelectIdx(keep, nf, 0)
    IN  [m EXCEPT !.faces = [j \in DOMAIN kept |-> m.faces[kept[j] + 1]],
                  !.internals = EmptyDict]

\* Merge duplicate vertices: each vertex is represented by the first vertex
\* equal to it and the faces are renumbered to the representatives; the
\* vertices merged away stay in the vertex array, unused.
merge_duplicates(m) ==
    LET rep(v) == CHOOSE j \in 0..v :
                     /\ m.vertices[j + 1] = m.vertices[v + 1]
                     /\ \A i \in 0..(j - 1) : m.vertices[i + 1] # m.vertices[v + 1]
    IN  [m EXCEPT !.faces = [f \in DOMAIN m.faces |->
                               [k \in 1..4 |-> rep(m.faces[f][k])]],
                  !.internals = EmptyDict]

\* The canonical encoding of a face stored as a quadrangle that is a
\* triangle: the three distinct ids in their order, the first repeated last.
HealTriangleRow(face) ==
    LET first(k) == \A i \in 1..(k - 1) : face[i] # face[k]
        ids == SelectIdx([k \in 1..4 |-> first(k)], 4, 0)
    IN  IF face[1] # face[4] /\ Len(ids) = 3
        THEN <<face[ids[1] + 1], face[ids[2] + 1], face[ids[3] + 1], face[ids[1] + 1]>>
        ELSE face

\* Heal triangles.
heal_triangles(m) ==
    [m EXCEPT !.faces = [f \in DOMAIN m.faces |-> HealTriangleRow(m.faces[f])],
              !.internals = EmptyDict]

\* Two faces that run along a shared edge in the same direction have
\* opposite orientations.
Inconsistent(a, b) == FaceEdges(a) \cap FaceEdges(b) # {}

RECURSIVE HealNormalsWalk(_, _)
\* The breadth-first walk: the unvisited face of least id next to a visited
\* face is flipped when it is inconsistent with its visited neighbour of
\* least id; when no such face is left, the unvisited face of least id is
\* the seed of the next component.
HealNormalsWalk(faces, visited) ==
    LET nf == Len(faces)
        rest == (1..nf) \ visited
        near == {g \in rest : \E f \in visited : Adjacent(faces[f], faces[g])}
        least(S) == CHOOSE x \in S : \A y \in S : x <= y
    IN  IF rest = {} THEN faces
        ELSE IF near = {} THEN HealNormalsWalk(faces, visited \cup {least(rest)})
        ELSE LET g == least(near)
                 f == least({h \in visited : Adjacent(faces[h], faces[g])})
                 row == IF Inconsistent(faces[f], faces[g]) THEN FlipRow(faces[g])
                        ELSE faces[g]
             IN  HealNormalsWalk([faces EXCEPT ![g] = row], visited \cup {g})

\* Heal normals.
heal_normals(m) ==
    [m EXCEPT !.faces = HealNormalsWalk(m.faces, {}), !.internals = EmptyDict]

\* heal_mesh with the duplicates merged before the degenerate faces are removed.
heal_mesh_steps_merge_first ==
    <<"remove_unused_vertices", "merge_duplicates", "remove_degenerated_faces",
      "heal_triangles", "heal_normals">>

\* The steps of heal_mesh after the invalidation of the face properties, in
\* the order of the calls.
heal_mesh_steps ==
    <<"remove_unused_vertices", "remove_degenerated_faces", "merge_duplicates",
      "heal_triangles", "heal_normals">>

---------------------------------------------------------------------------
(* heal_mesh, step by step, called twice on the same mesh. *)

\* The vertex E, on the line of BasePoint(0) and BasePoint(1).
PointE == <<-1, 0, 0>>

\* Vertex arrays of the meshes to heal: each vertex is a corner of the
\* square, a duplicate of the first corner, or E.
HealVertexArrays ==
    UNION {[1..n -> {1, 2, 3}] : n \in 0..MaxV}

HealVertices(c) ==
    [i \in DOMAIN c |-> IF c[i] = 1 THEN BasePoint(i - 1)
                        ELSE IF c[i] = 2 THEN BasePoint(0) ELSE PointE]

\* Rows of the face arrays of the meshes to heal: triangles and a quadrangle
\* of either orientation, and triangles stored as quadrangles.
HealRows ==
    {<<0, 1, 2, 0>>, <<0, 2, 1, 0>>, <<0, 2, 3, 0>>, <<0, 1, 2, 3>>, <<0, 1, 1, 2>>}

InitHeal ==
    /\ \E c \in HealVertexArrays : \E F \in SeqsUpTo(HealRows, MaxHealF) :
          LET vertices == VertexArray(HealVertices(c))
              faces == FaceArray(F)
          IN  /\ init_accepts(vertices, faces)
              /\ mesh = Mesh_init(vertices, faces)
    /\ lastOp = OpPlain("init")
    /\ ctor = NoCall
    /\ heal = NoHeal
    /\ imm = NoImmersed
    /\ names = NoNames
    /\ pair = NoPair

\* A read of a face property before heal_mesh is called.
HealReadFacesProperty ==
    /\ heal.pc = 0
    /\ heal.round = 1
    /\ ~has_faces_properties(mesh)
    /\ mesh' = faces_property(mesh, "faces_areas")
    /\ lastOp' = [OpPlain("faces_property") EXCEPT !.arg = "faces_areas"]
    /\ UNCHANGED <<ctor, heal, imm, names, pair>>

\* The call of heal_mesh and its first statement:
\* if self._has_faces_properties(): self._remove_faces_properties()
HealInvalidate ==
    /\ heal.pc = 0
    /\ mesh' = IF has_faces_properties(mesh) THEN remove_faces_properties(mesh) ELSE mesh
    /\ heal' = [heal EXCEPT !.pc = 1, !.log = <<"invalidate">>]
    /\ lastOp' = Op("heal_mesh", <<>>)
    /\ UNCHANGED <<ctor, imm, names, pair>>

\* The statement of heal_mesh at position heal.pc is the call of step.
AtStep(step) ==
    /\ heal.pc \in DOMAIN heal_mesh_steps
    /\ heal_mesh_steps[heal.pc] = step

\* The call of step has returned.
StepDone(step) == [heal EXCEPT !.pc = @ + 1, !.log = Append(@, step)]

RemoveUnusedVertices ==
    /\ AtStep("remove_unused_vertices")
    /\ mesh' = remove_unused_vertices(mesh)
    /\ heal' = StepDone("remove_unused_vertices")
    /\ UNCHANGED <<lastOp, ctor, imm, names, pair>>

RemoveDegeneratedFaces ==
    /\ AtStep("remove_degenerated_faces")
    /\ mesh' = remove_degenerated_faces(mesh)
    /\ heal' = StepDone("remove_degenerated_faces")
    /\ UNCHANGED <<lastOp, ctor, imm, names, pair>>

MergeDuplicates ==
    /\ AtStep("merge_duplicates")
    /\ mesh' = merge_duplicates(mesh)
    /\ heal' = StepDone("merge_duplicates")
    /\ UNCHANGED <<lastOp, ctor, imm, names, pair>>

HealTriangles ==
    /\ AtStep("heal_triangles")
    /\ mesh' = heal_triangles(mesh)
    /\ heal' = StepDone("heal_triangles")
    /\ UNCHANGED <<lastOp, ctor, imm, names, pair>>

HealNormals ==
    /\ AtStep("heal_normals")
    /\ mesh' = heal_normals(mesh)
    /\ heal' = StepDone("heal_normals")
    /\ UNCHANGED <<lastOp, ctor, imm, names, pair>>

\* heal_mesh has returned; it is called again on the healed mesh.
HealAgain ==
    /\ heal.pc = Len(heal_mesh_steps) + 1
    /\ heal.round = 1
    /\ heal' = [pc |-> 0, log |-> <<>>, round |-> 2,
                healed |-> <<mesh.vertices, mesh.faces>>]
    /\ UNCHANGED <<mesh, lastOp, ctor, imm, names, pair>>

NextHeal ==
    \/ HealReadFacesProperty
    \/ HealInvalidate
    \/ RemoveUnusedVertices
    \/ RemoveDegeneratedFaces
    \/ MergeDuplicates
    \/ HealTriangles
    \/ HealNormals
    \/ HealAgain

SpecHeal == InitHeal /\ [][NextHeal]_vars

---------------------------------------------------------------------------
(* The plane clipper (capytaine.mesh.mesh_clipper, specified in section    *)
(* 4.5).  A plane is a normal and a scalar; the kept side is the side      *)
(* where normal . p <= scalar.                                             *)

\* Plane(normal, scalar)
Plane(normal, scalar) == [normal |-> normal, c |-> scalar]

\* The signed distance of a point to the plane, positive on the discarded
\* side.
Side(plane, p) == Dot(plane.normal, p) - plane.c

\* The point of the plane on the edge from a to b, which crosses it.
Intersection(plane, a, b) ==
    LET da == Abs(Side(plane, a))
        db == Abs(Side(plane, b))
    IN  [k \in 1..3 |-> (db * a[k] + da * b[k]) \div (da + db)]

RECURSIVE ClipPolygon(_, _, _, _)
\* The part of the polygon of a face on the kept side, from its k-th
\* vertex on: each vertex of the kept side with its id, and each crossing
\* point with the id -1.
ClipPolygon(V, poly, plane, k) ==
    IF k > Len(poly) THEN <<>>
    ELSE LET a  == At(V, poly[k])
             b  == At(V, poly[IF k = Len(poly) THEN 1 ELSE k + 1])
             sa == Side(plane, a)
             sb == Side(plane, b)
         IN  (IF sa <= 0 THEN <<[id |-> poly[k], p |-> a]>> ELSE <<>>)
             \o (IF sa * sb < 0
                 THEN <<[id |-> -1, p |-> Intersection(plane, a, b)]>> ELSE <<>>)
             \o ClipPolygon(V, poly, plane, k + 1)

\* The kept part of every face: the face itself when no vertex is on the
\* discarded side, nothing when no vertex is strictly on the kept side.
ClippedFaces(m, plane) ==
    [f \in DOMAIN m.faces |->
        LET poly == FacePolygon(m.faces[f])
            S == {Side(plane, At(m.vertices, poly[k])) : k \in DOMAIN poly}
        IN  IF \A d \in S : d >= 0 THEN <<>>
            ELSE ClipPolygon(m.vertices, poly, plane, 1)]

RECURSIVE NewPoints(_, _, _)
\* The crossing points of the faces from the f-th on, each once, in the
\* order they are met; seen are those met before.
NewPoints(clipped, f, seen) ==
    IF f > Len(clipped) THEN seen
    ELSE LET new == SelectSeq(clipped[f], LAMBDA e : e.id = -1)
             add[n \in 0..Len(new)] ==
                 IF n = 0 THEN seen
                 ELSE IF \E q \in DOMAIN add[n - 1] : add[n - 1][q] = new[n].p
                      THEN add[n - 1]
                      ELSE Append(add[n - 1], new[n].p)
         IN  NewPoints(clipped, f + 1, add[Len(new)])

\* The faces of a clipped polygon given by its vertex ids: a triangle, a
\* quadrangle, or a quadrangle and a triangle for five vertices.
PolygonFaces(ids) ==
    IF Len(ids) = 3 THEN << <<ids[1], ids[2], ids[3], ids[1]>> >>
    ELSE IF Len(ids) = 4 THEN << ids >>
    ELSE IF Len(ids) = 5
    THEN << <<ids[1], ids[2], ids[3], ids[4]>>, <<ids[1], ids[4], ids[5], ids[1]>> >>
    ELSE <<>>

RECURSIVE ConcatFaces(_, _)
ConcatFaces(rows, f) ==
    IF f > Len(rows) THEN <<>> ELSE rows[f] \o ConcatFaces(rows, f + 1)

\* MeshClipper(mesh, plane).clipped_mesh: a new mesh with the vertices of
\* the source followed by the crossing points, and the kept faces.
MeshClipper(m, plane) ==
    LET clipped == ClippedFaces(m, plane)
        added   == NewPoints(clipped, 1, <<>>)
        nv      == Len(m.vertices)
        id_of(e) == IF e.id # -1 THEN e.id
                    ELSE nv - 1 + (CHOOSE q \in DOMAIN added : added[q] = e.p)
        rows == [f \in DOMAIN clipped |->
                   IF \A e \in {clipped[f][k] : k \in DOMAIN clipped[f]} : e.id # -1
                   THEN (IF Len(clipped[f]) = 0 THEN <<>> ELSE << m.faces[f] >>)
                   ELSE PolygonFaces([k \in DOMAIN clipped[f] |-> id_of(clipped[f][k])])]
    IN  Named(NewMesh(m.vertices \o added, ConcatFaces(rows, 1)), OtherName)

---------------------------------------------------------------------------
(* get_immersed_part, step by step. *)

\* -np.infty: below every elevation of the model.
NegInfty == -100

\* self.vertices[:, 2].min() and .max(), of a mesh with vertices
ZMin(m) ==
    LET Z == {m.vertices[i][3] : i \in DOMAIN m.vertices}
    IN  CHOOSE z \in Z : \A y \in Z : z <= y

ZMax(m) ==
    LET Z == {m.vertices[i][3] : i \in DOMAIN m.vertices}
    IN  CHOOSE z \in Z : \A y \in Z : y <= z

\* self.copy(name): a deep copy, the cache included, under a new name.
copy(m, name) == Named(m, name)

\* The last branch with the unused vertices removed before the clips.
clipping_steps_remove_first(sea_bottom) ==
    <<"remove_unused_vertices", "clip_free_surface">>
    \o (IF sea_bottom > NegInfty THEN <<"clip_sea_bottom">> ELSE <<>>)
    \o <<"rename">>

\* The steps of the last branch of get_immersed_part, in the order of the
\* statements: the second clip only when sea_bottom > -np.infty.
clipping_steps(sea_bottom) ==
    <<"clip_free_surface">>
    \o (IF sea_bottom > NegInfty THEN <<"clip_sea_bottom">> ELSE <<>>)
    \o <<"remove_unused_vertices", "rename">>

\* Meshes in the plane y = 0, moved down by dz: a quadrangle of height 4, a
\* triangle of height 2, two quadrangles of height 2 one above the other,
\* and the empty mesh.  Every edge is horizontal, vertical, or of height 2
\* between even abscissas, so a plane at an integer elevation crosses it at
\* a point with integer coordinates.
ImmersedMeshes ==
    LET down(V, dz) == [i \in DOMAIN V |-> Add(V[i], <<0, 0, -dz>>)]
        quad == NewMesh(<< <<0, 0, -4>>, <<2, 0, -4>>, <<2, 0, 0>>, <<0, 0, 0>> >>,
                        << <<0, 1, 2, 3>> >>)
        tri  == NewMesh(<< <<0, 0, -2>>, <<2, 0, -2>>, <<0, 0, 0>> >>,
                        << <<0, 1, 2, 0>> >>)
        two  == NewMesh(<< <<0, 0, -4>>, <<2, 0, -4>>, <<2, 0, -2>>, <<0, 0, -2>>,
                           <<2, 0, 0>>, <<0, 0, 0>> >>,
                        << <<0, 1, 2, 3>>, <<3, 2, 4, 5>> >>)
    IN  {NewMesh(<<>>, <<>>)} \cup
        {NewMesh(down(m.vertices, dz), m.faces) : m \in {quad, tri, two}, dz \in 0..MaxShift}

Elevations == (0 - MaxDepth)..1

InitImmersed ==
    /\ mesh \in ImmersedMeshes
    /\ lastOp = OpPlain("init")
    /\ ctor = NoCall
    /\ heal = NoHeal
    /\ imm = NoImmersed
    /\ names = NoNames
    /\ pair = NoPair

\* The call of get_immersed_part(free_surface, sea_bottom) and its branch.
GetImmersedPart ==
    /\ imm.result = "not called"
    /\ \E free_surface \in Elevations : \E sea_bottom \in Elevations \cup {NegInfty} :
          LET call == [imm EXCEPT !.free_surface = free_surface, !.sea_bottom = sea_bottom]
          IN  IF nb_vertices(mesh) = 0
              THEN imm' = [call EXCEPT !.result = "ValueError"]
              ELSE IF ZMin(mesh) > free_surface \/ ZMax(mesh) < sea_bottom
              THEN imm' = [call EXCEPT !.result = "None"]
              ELSE IF ZMin(mesh) > sea_bottom /\ ZMax(mesh) < free_surface
              THEN imm' = [call EXCEPT !.result = "copy",
                                       !.out = copy(mesh, Append(imm.self_name, "_clipped"))]
              ELSE imm' = [call EXCEPT !.result = "clipping", !.pc = 1]
    /\ lastOp' = Op("get_immersed_part", <<>>)
    /\ UNCHANGED <<mesh, ctor, heal, names, pair>>

\* The statement at position imm.pc of the last branch is step.
AtClippingStep(step) ==
    /\ imm.result = "clipping"
    /\ imm.pc \in DOMAIN clipping_steps(imm.sea_bottom)
    /\ clipping_steps(imm.sea_bottom)[imm.pc] = step

\* The step has run on the mesh held by the variable named on, with the
\* result out.
ClippingStepDone(step, on, out) ==
    [imm EXCEPT !.pc = @ + 1, !.log = Append(@, [step |-> step, on |-> on]), !.out = out]

\* clipped_mesh = MeshClipper(self, Plane((0, 0, 1), free_surface)).clipped_mesh
ClipFreeSurface ==
    /\ AtClippingStep("clip_free_surface")
    /\ imm' = ClippingStepDone("clip_free_surface", "self",
                  MeshClipper(mesh, Plane(<<0, 0, 1>>, imm.free_surface)))
    /\ UNCHANGED <<mesh, lastOp, ctor, heal, names, pair>>

\* clipped_mesh = MeshClipper(clipped_mesh, Plane((0, 0, -1), -sea_bottom)).clipped_mesh
ClipSeaBottom ==
    /\ AtClippingStep("clip_sea_bottom")
    /\ imm' = ClippingStepDone("clip_sea_bottom", "clipped_mesh",
                  MeshClipper(imm.out, Plane(<<0, 0, -1>>, 0 - imm.sea_bottom)))
    /\ UNCHANGED <<mesh, lastOp, ctor, heal, names, pair>>

\* clipped_mesh.remove_unused_vertices()
ClippedRemoveUnusedVertices ==
    /\ AtClippingStep("remove_unused_vertices")
    /\ imm' = ClippingStepDone("remove_unused_vertices", "clipped_mesh",
                  Named(remove_unused_vertices(imm.out), imm.out.name))
    /\ UNCHANGED <<mesh, lastOp, ctor, heal, names, pair>>

\* clipped_mesh.name = f"{self.name}_clipped"; return clipped_mesh
ClippedRename ==
    /\ AtClippingStep("rename")
    /\ imm' = [ClippingStepDone("rename", "clipped_mesh",
                   [imm.out EXCEPT !.name = Append(imm.self_name, "_clipped")])
               EXCEPT !.result = "clipped"]
    /\ UNCHANGED <<mesh, lastOp, ctor, heal, names, pair>>

NextImmersed ==
    \/ GetImmersedPart
    \/ ClipFreeSurface
    \/ ClipSeaBottom
    \/ ClippedRemoveUnusedVertices
    \/ ClippedRename

SpecImmersed == InitImmersed /\ [][NextImmersed]_vars

---------------------------------------------------------------------------
(* Names.  Mesh._ids = count(0) is shared by all the meshes of the process; *)
(* __init__ draws from it when no name is given, before its asserts.       *)

\* The constructions and extractions of one run.
MaxCalls == 4

RECURSIVE Decimal(_)
\* str(k) for k >= 0, digit by digit
Decimal(k) ==
    LET digit == <<"0", "1", "2", "3", "4", "5", "6", "7", "8", "9">>[(k % 10) + 1]
    IN  IF k < 10 THEN <<digit>> ELSE Append(Decimal(k \div 10), digit)

\* f'mesh_{k}'
AutoName(k) == <<"mesh_">> \o Decimal(k)

\* next(Mesh._ids) without the increment: every call gives the same number.
Mesh_ids_after_next_stuck(ids) == ids

\* The counter after next(Mesh._ids).
Mesh_ids_after_next(ids) == ids + 1

\* The first lines of __init__: the name of the mesh and the counter
\* afterwards.
init_name(name, ids) ==
    IF name.given
    THEN [name |-> name.value, auto |-> <<>>, ids |-> ids]
    ELSE [name |-> AutoName(ids), auto |-> AutoName(ids), ids |-> Mesh_ids_after_next(ids)]

\* 'mesh_extracted_from_%s' % self.name
ExtractedName(self_name) == <<"mesh_extracted_from_">> \o self_name

\* The arrays given to the constructions of a run: accepted ones (a
\* quadrangle, four vertices without a face, nothing at all) and refused
\* ones (a quadrangle without vertices, rows of three entries).
NamesVertexArgs == {None, Arg(VertexArray([i \in 1..4 |-> BasePoint(i - 1)]))}

NamesFaceArgs ==
    {None, Arg([shape |-> <<1, 4>>, rows |-> <<RowA>>]),
           Arg([shape |-> <<1, 3>>, rows |-> <<<<0, 2, 4>>>>])}

\* The names a caller gives: one of its own, and one that looks automatic.
UserNames == {<<"hull">>, AutoName(1)}

\* The lists of face ids given to extract_faces.
NamesExtractIds == {<<>>, <<0>>, <<1>>}

\* The counter may stand anywhere when the run starts: the constructions
\* made before it (whose meshes are gone) have consumed ids.
InitNames ==
    /\ mesh = NewMesh(<<>>, <<>>)
    /\ lastOp = OpPlain("init")
    /\ ctor = NoCall
    /\ heal = NoHeal
    /\ imm = NoImmersed
    /\ pair = NoPair
    /\ \E ids \in {0, 9} : names = [NoNames EXCEPT !.ids = ids]

\* Mesh(vertices, faces, name): the name is set first, then the asserts run;
\* a mesh is built only if they pass.
Mesh_init_named(vertices, faces, name) ==
    LET n == init_name(name, names.ids)
    IN  IF init_accepts(init_vertices(vertices), init_faces(faces))
        THEN [names EXCEPT
                !.ids = n.ids,
                !.meshes = Append(@, [name |-> n.name, auto |-> n.auto,
                                      mesh |-> Mesh_init(init_vertices(vertices),
                                                         init_faces(faces))]),
                !.calls = @ + 1]
        ELSE [names EXCEPT !.ids = n.ids, !.calls = @ + 1]

ConstructUnnamed ==
    /\ UNCHANGED <<mesh, lastOp, ctor, heal, imm, pair>>
    /\ names.calls < MaxCalls
    /\ \E vertices \in NamesVertexArgs : \E faces \in NamesFaceArgs :
           names' = Mesh_init_named(vertices, faces, None)

ConstructNamed ==
    /\ UNCHANGED <<mesh, lastOp, ctor, heal, imm, pair>>
    /\ names.calls < MaxCalls
    /\ \E vertices \in NamesVertexArgs : \E faces \in NamesFaceArgs :
       \E name \in UserNames :
           names' = Mesh_init_named(vertices, faces, Arg(name))

\* self.extract_faces(ids) on a mesh built earlier: IndexError before any
\* construction for ids that do not index its arrays; otherwise a mesh is
\* constructed without a name and then renamed.
ExtractFaces ==
    /\ UNCHANGED <<mesh, lastOp, ctor, heal, imm, pair>>
    /\ names.calls < MaxCalls
    /\ \E i \in DOMAIN names.meshes : \E id_faces_to_extract \in NamesExtractIds :
           LET self == names.meshes[i]
           IN  IF extract_faces_raises(self.mesh, id_faces_to_extract)
               THEN names' = [names EXCEPT !.calls = @ + 1]
               ELSE LET n == init_name(None, names.ids)
                    IN  names' = [names EXCEPT
                          !.ids = n.ids,
                          !.meshes = Append(@,
                              [name |-> ExtractedName(self.name), auto |-> n.auto,
                               mesh |-> extract_faces(self.mesh, id_faces_to_extract)]),
                          !.calls = @ + 1]

NextNames ==
    \/ ConstructUnnamed
    \/ ConstructNamed
    \/ ExtractFaces

SpecNames == InitNames /\ [][NextNames]_vars

---------------------------------------------------------------------------
(* Two meshes.  The mesh m (the variable mesh) and a mesh m2 made from it  *)
(* by copy, extract_faces or the constructor.  Each array of a mesh is a   *)
(* slot; pair.shared holds the slots whose numpy storage the two meshes    *)
(* have in common, so that what one mesh writes in place shows in the      *)
(* other.  A slot leaves pair.shared when either mesh binds it to a new    *)
(* array.                                                                  *)

\* as_set_of_faces raises IndexError when self.vertices[self.faces] meets a
\* vertex id that is no index into the vertex array.
as_set_of_faces_raises(m) == ~FacesIndexable(m)

\* as_set_of_faces: the set of the faces, each as the tuple of the
\* coordinate tuples of its four vertices.
as_set_of_faces(m) ==
    {[k \in 1..4 |-> At(m.vertices, m.faces[f][k])] : f \in DOMAIN m.faces}

\* __eq__ for two meshes: "True", "False", or the IndexError of
\* as_set_of_faces.
Mesh_eq(self, other) ==
    IF as_set_of_faces_raises(self) \/ as_set_of_faces_raises(other) THEN "IndexError"
    ELSE IF as_set_of_faces(self) = as_set_of_faces(other) THEN "True"
    ELSE "False"

\* hash() of a face tuple, on 16 bits: a function of its coordinates and of
\* their places.
TupleHash(face) ==
    SumInt([k \in 1..4 |->
              SumInt([c \in 1..3 |-> (3 * k + c) * (face[k][c] + 1024)], 3)], 4) % 65536

RECURSIVE FrozensetHash(_)
\* hash(frozenset(S)): the hashes of the elements combined whatever their
\* order.
FrozensetHash(S) ==
    IF S = {} THEN 0
    ELSE LET x == CHOOSE y \in S : TRUE
         IN  (TupleHash(x) + FrozensetHash(S \ {x})) % 65536

\* __hash__
Mesh_hash(m) == FrozensetHash(as_set_of_faces(m))

\* The operations of one run.
MaxPairOps == 3

Slots ==
    {"vertices", "faces", "surface_integrals"} \cup FacesPropertiesKeys
        \cup TrianglesQuadranglesKeys \cup ConnectivityKeys

SlotsOf(m) == {"vertices", "faces"} \cup DOMAIN m.internals

\* A constructor keeping the arrays it is given (np.asarray in place of
\* np.array).
Mesh_init_shared_asarray(slots) == slots

\* __init__: np.array(vertices, dtype=np.float) and np.array(faces,
\* dtype=np.int) copy what they are given; no slot of the argument is kept.
Mesh_init_shared(slots) == {}

\* copy: deepcopy(self) copies every array of the mesh, the cache included.
deepcopy_shared(slots) == {}

\* extract_faces: self._vertices[id_v] and self._faces[ids] are new arrays
\* (indexing by a list of ids copies), handed to the constructor.
extract_faces_shared(slots) == {}

\* What the operations write in place, slot by slot.
\* translate: self.vertices += vector writes the moved vertices into the
\* vertex array before the setter copies it.
TranslateWrites(m, vector) ==
    [s \in {"vertices"} |-> [i \in DOMAIN m.vertices |-> Add(m.vertices[i], vector)]]

\* mirror: self.vertices -= ... likewise.
MirrorWrites(m, plane) ==
    [s \in {"vertices"} |-> [i \in DOMAIN m.vertices |-> MirrorPoint(m.vertices[i], plane)]]

\* flip_normals: faces_normals *= -1 on the cached array.
FlipNormalsWrites(m) ==
    IF has_faces_properties(m)
    THEN [s \in {"faces_normals"} |-> NegateRows(m.internals["faces_normals"])]
    ELSE <<>>

\* triangulate_quadrangles: faces[quadrangles_ids, ...] = ... writes the
\* first triangle of each quadrangle into the face array before the
\* concatenation makes a new one (after is the mesh it leaves).
TriangulateWrites(m, after) ==
    [s \in {"faces"} |-> SubSeq(after.faces, 1, Len(m.faces))]

\* The setters, rotate and the reads write into no array that was there.
NoWrites == <<>>

\* The slots the operation binds to a new array or drops.
Rebound(op) ==
    CASE op \in {"vertices", "translate", "mirror"} -> Slots \ {"faces"}
      [] op \in {"faces", "triangulate_quadrangles"} -> Slots \ {"vertices"}
      [] op = "rotate" -> {"vertices", "faces_normals", "faces_centers", "surface_integrals"}
      [] op = "flip_normals" -> {"surface_integrals"}
      [] OTHER -> {}

\* The mesh o as it reads after the other mesh wrote `writes` in place:
\* the shared slots hold what was written (the face array through a
\* fliplr view when one of the two meshes is flipped against the other).
Seen(o, writes, shared, flip) ==
    LET w  == (DOMAIN writes) \cap shared
        o1 == IF "vertices" \in w THEN [o EXCEPT !.vertices = writes["vertices"]] ELSE o
        o2 == IF "faces" \in w
              THEN [o1 EXCEPT !.faces =
                      IF flip THEN [f \in DOMAIN writes["faces"] |-> FlipRow(writes["faces"][f])]
                      ELSE writes["faces"]]
              ELSE o1
    IN  [o2 EXCEPT !.internals =
           [k \in DOMAIN o2.internals |-> IF k \in w THEN writes[k] ELSE o2.internals[k]]]

\* The two meshes after the operation op on the mesh t ("m" or "m2"), which
\* leaves t as the mesh `after` and writes `writes` in place.
PairAfter(t, op, after, writes) ==
    LET other == IF t = "m" THEN pair.m2 ELSE mesh
        seen  == IF pair.made = "none" THEN other
                 ELSE Seen(other, writes, pair.shared, pair.flip)
    IN  [mesh |-> IF t = "m" THEN after ELSE seen,
         pair |-> [pair EXCEPT
                     !.m2     = IF t = "m" THEN seen ELSE after,
                     !.shared = @ \ Rebound(op),
                     !.flip   = IF op \in {"flip_normals", "mirror"} THEN ~@ ELSE @,
                     !.target = t,
                     !.op     = op,
                     !.ops    = @ + 1]]

\* The meshes a setter or a read can be applied to: m alone until m2 is
\* made.
Targets == IF pair.made = "none" THEN {"m"} ELSE {"m", "m2"}

\* The meshes a transformation can be applied to, once m2 is made.
Made == IF pair.made = "none" THEN {} ELSE {"m", "m2"}

Target(t) == IF t = "m" THEN mesh ELSE pair.m2

\* The lists of face ids given to extract_faces.
PairExtractIds == {<<>>, <<1, 0>>, <<0, 0>>, <<-1>>}

InitPair ==
    /\ \E F \in {<<RowA>>, <<RowT, RowA>>} :
          mesh = Mesh_init(VertexArray([i \in 1..4 |-> BasePoint(i - 1)]),
                           [shape |-> <<Len(F), 4>>, rows |-> F])
    /\ lastOp = OpPlain("init")
    /\ ctor = NoCall
    /\ heal = NoHeal
    /\ imm = NoImmersed
    /\ names = NoNames
    /\ pair = NoPair

\* m2 = m.copy()
MakeCopy ==
    /\ UNCHANGED <<mesh, lastOp, ctor, heal, imm, names>>
    /\ pair.made = "none"
    /\ pair' = [pair EXCEPT !.made = "copy", !.m2 = mesh,
                            !.shared = deepcopy_shared(SlotsOf(mesh)),
                            !.target = "none", !.op = "copy"]

\* m2 = m.extract_faces(ids), when it does not raise
MakeExtract ==
    /\ UNCHANGED <<mesh, lastOp, ctor, heal, imm, names>>
    /\ pair.made = "none"
    /\ \E id_faces_to_extract \in PairExtractIds :
          /\ ~extract_faces_raises(mesh, id_faces_to_extract)
          /\ pair' = [pair EXCEPT !.made = "extract",
                                  !.m2 = extract_faces(mesh, id_faces_to_extract),
                                  !.ids = id_faces_to_extract,
                                  !.shared = extract_faces_shared({"vertices", "faces"}),
                                  !.target = "none", !.op = "extract_faces"]

\* m2 = Mesh(m.vertices, m.faces), when the asserts pass
MakeConstruct ==
    /\ UNCHANGED <<mesh, lastOp, ctor, heal, imm, names>>
    /\ pair.made = "none"
    /\ init_accepts(VertexArray(mesh.vertices), FaceArray(mesh.faces))
    /\ pair' = [pair EXCEPT !.made = "construct",
                            !.m2 = Mesh_init(VertexArray(mesh.vertices), FaceArray(mesh.faces)),
                            !.shared = Mesh_init_shared({"vertices", "faces"}),
                            !.target = "none", !.op = "Mesh"]

\* t.vertices = value: a shorter array, or the vertex array of the other
\* mesh (the empty array while m2 is not made)
PairSetVertices ==
    /\ UNCHANGED <<lastOp, ctor, heal, imm, names>>
    /\ pair.ops < MaxPairOps
    /\ \E t \in Targets :
       \E value \in {[i \in 1..3 |-> BasePoint(i - 1)], Target(IF t = "m" THEN "m2" ELSE "m").vertices} :
           LET r == PairAfter(t, "vertices", vertices_setter(Target(t), value), NoWrites)
           IN  mesh' = r.mesh /\ pair' = r.pair

\* t.faces = value
PairSetFaces ==
    /\ UNCHANGED <<lastOp, ctor, heal, imm, names>>
    /\ pair.ops < MaxPairOps
    /\ \E t \in Targets : \E value \in {<<RowT>>, <<RowA, RowN>>} :
           LET r == PairAfter(t, "faces", faces_setter(Target(t), value), NoWrites)
           IN  mesh' = r.mesh /\ pair' = r.pair

PairTranslate ==
    /\ UNCHANGED <<lastOp, ctor, heal, imm, names>>
    /\ pair.ops < MaxPairOps
    /\ \E t \in Made : \E vector \in Translations :
           LET r == PairAfter(t, "translate", translate(Target(t), vector),
                                TranslateWrites(Target(t), vector))
           IN  /\ InBox(r.mesh.vertices) /\ InBox(r.pair.m2.vertices)
               /\ mesh' = r.mesh /\ pair' = r.pair

PairRotate ==
    /\ UNCHANGED <<lastOp, ctor, heal, imm, names>>
    /\ pair.ops < MaxPairOps
    /\ \E t \in Made : \E rot_matrix \in Rotations :
           LET r == PairAfter(t, "rotate", rotate(Target(t), rot_matrix), NoWrites)
           IN  mesh' = r.mesh /\ pair' = r.pair

PairFlipNormals ==
    /\ UNCHANGED <<lastOp, ctor, heal, imm, names>>
    /\ pair.ops < MaxPairOps
    /\ \E t \in Made :
           LET r == PairAfter(t, "flip_normals", flip_normals(Target(t)),
                                FlipNormalsWrites(Target(t)))
           IN  mesh' = r.mesh /\ pair' = r.pair

PairMirror ==
    /\ UNCHANGED <<lastOp, ctor, heal, imm, names>>
    /\ pair.ops < MaxPairOps
    /\ \E t \in Made : \E plane \in MirrorPlanes :
           LET r == PairAfter(t, "mirror", mirror(Target(t), plane),
                                MirrorWrites(Target(t), plane))
           IN  /\ InBox(r.mesh.vertices) /\ InBox(r.pair.m2.vertices)
               /\ mesh' = r.mesh /\ pair' = r.pair

PairTriangulateQuadrangles ==
    /\ UNCHANGED <<lastOp, ctor, heal, imm, names>>
    /\ pair.ops < MaxPairOps
    /\ \E t \in Made :
           LET after == triangulate_quadrangles(Target(t))
               r == PairAfter(t, "triangulate_quadrangles", after,
                              TriangulateWrites(Target(t), after))
           IN  mesh' = r.mesh /\ pair' = r.pair

\* A read of a face property of t, when the engine does not raise
PairReadFacesProperty ==
    /\ UNCHANGED <<lastOp, ctor, heal, imm, names>>
    /\ pair.ops < MaxPairOps
    /\ \E t \in Targets : \E key \in {"faces_normals"} :
           /\ FacesIndexable(Target(t))
           /\ LET r == PairAfter(t, "faces_property", faces_property(Target(t), key), NoWrites)
              IN  mesh' = r.mesh /\ pair' = r.pair

NextPair ==
    \/ MakeCopy
    \/ MakeExtract
    \/ MakeConstruct
    \/ PairSetVertices
    \/ PairSetFaces
    \/ PairTranslate
    \/ PairRotate
    \/ PairFlipNormals
    \/ PairMirror
    \/ PairTriangulateQuadrangles
    \/ PairReadFacesProperty

SpecPair == InitPair /\ [][NextPair]_vars

---------------------------------------------------------------------------
(* Properties of the state machine of one mesh.                            *)

\* The ids of the faces of F that are triangles, and that are quadrangles,
\* ascending and 0-based.
TriangleIdsOf(F) == SelectIdx([f \in DOMAIN F |-> F[f][1] = F[f][4]], Len(F), 0)

QuadrangleIdsOf(F) == SelectIdx([f \in DOMAIN F |-> F[f][1] /= F[f][4]], Len(F), 0)

\* C1: cache coherence.  In every reachable state each cached face property,
\* the cached triangle and quadrangle id lists and the cached surface
\* integrals equal what a fresh computation from the current vertex and face
\* arrays gives.
C1_CacheCoherence ==
    /\ \A k \in FacesPropertiesKeys \cap DOMAIN mesh.internals :
          /\ FacesIndexable(mesh)
          /\ mesh.internals[k] = compute_faces_properties(mesh)[k]
    /\ "triangles_ids" \in DOMAIN mesh.internals =>
          mesh.internals["triangles_ids"] = TriangleIdsOf(mesh.faces)
    /\ "quadrangles_ids" \in DOMAIN mesh.internals =>
          mesh.internals["quadrangles_ids"] = QuadrangleIdsOf(mesh.faces)
    /\ "surface_integrals" \in DOMAIN mesh.internals =>
          /\ FacesIndexable(mesh)
          /\ mesh.internals["surface_integrals"] = compute_faces_integrals(mesh)

\* C1 witness: flip_normals has acted on a mesh whose face properties and id
\* lists were cached, and the cache still serves a normal that is defined.
C1_Witness ==
    /\ lastOp.op = "flip_normals"
    /\ lastOp.had = <<TRUE, TRUE>>
    /\ has_faces_properties(mesh)
    /\ "triangles_ids" \in DOMAIN mesh.internals
    /\ \E f \in DOMAIN mesh.faces : mesh.internals["faces_normals"][f].den /= 0

\* C2: face-index invariant.  Every entry of the face array is an id i with
\* 0 <= i < nb_vertices.
C2_FaceIndexInvariant ==
    \A f \in DOMAIN mesh.faces : \A k \in DOMAIN mesh.faces[f] :
        0 <= mesh.faces[f][k] /\ mesh.faces[f][k] < nb_vertices(mesh)

\* C4: translate(v) on a mesh (here with at least one face) whose face
\* properties are cached keeps them cached, with the centers shifted by v
\* and the areas, normals and radii unchanged, and drops only the surface
\* integrals.
C4_TranslateKeepsFaceProperties ==
    [][(lastOp'.op = "translate" /\ has_faces_properties(mesh) /\ nb_faces(mesh) > 0) =>
         /\ FacesPropertiesKeys \subseteq DOMAIN mesh'.internals
         /\ mesh'.internals["faces_centers"] =
               ShiftCenters(mesh.internals["faces_centers"], lastOp'.arg)
         /\ mesh'.internals["faces_areas"] = mesh.internals["faces_areas"]
         /\ mesh'.internals["faces_normals"] = mesh.internals["faces_normals"]
         /\ mesh'.internals["faces_radiuses"] = mesh.internals["faces_radiuses"]
         /\ "surface_integrals" \notin DOMAIN mesh'.internals
         /\ DOMAIN mesh'.internals = (DOMAIN mesh.internals) \ {"surface_integrals"}]_vars

\* C5 as claimed: triangulate_quadrangles rewrites the slot of every
\* quadrangle (v0 v1 v2 v3) as (v0 v1 v2 v0) and appends (v0 v2 v3 v0), in
\* the order of the quadrangle ids; triangles and vertices are unchanged.
C5_SlotTakesFirstTriangle ==
    [][lastOp'.op = "triangulate_quadrangles" =>
         LET F == mesh.faces
             G == mesh'.faces
             q == QuadrangleIdsOf(F)
         IN  /\ Len(G) = Len(F) + Len(q)
             /\ \A f \in DOMAIN F :
                   G[f] = IF F[f][1] /= F[f][4]
                          THEN <<F[f][1], F[f][2], F[f][3], F[f][1]>>
                          ELSE F[f]
             /\ \A j \in DOMAIN q :
                   G[Len(F) + j] = LET r == F[q[j] + 1] IN <<r[1], r[3], r[4], r[1]>>
             /\ mesh'.vertices = mesh.vertices]_vars

\* C5 amended: triangulate_quadrangles rewrites the slot of every quadrangle
\* (v0 v1 v2 v3) as the second triangle (v0 v2 v3 v0) and appends the first
\* triangle (v0 v1 v2 v0), in the order of the quadrangle ids; triangles and
\* vertices are unchanged.
C5_SlotTakesSecondTriangle ==
    [][lastOp'.op = "triangulate_quadrangles" =>
         LET F == mesh.faces
             G == mesh'.faces
             q == QuadrangleIdsOf(F)
         IN  /\ Len(G) = Len(F) + Len(q)
             /\ \A f \in DOMAIN F :
                   G[f] = IF F[f][1] /= F[f][4]
                          THEN <<F[f][1], F[f][3], F[f][4], F[f][1]>>
                          ELSE F[f]
             /\ \A j \in DOMAIN q :
                   G[Len(F) + j] = LET r == F[q[j] + 1] IN <<r[1], r[2], r[3], r[1]>>
             /\ mesh'.vertices = mesh.vertices]_vars

\* C5 witness: triangulate_quadrangles has split two quadrangles whose
\* triangles differ.
C5_Witness ==
    /\ lastOp.op = "triangulate_quadrangles"
    /\ lastOp.arg = 2
    /\ Len(mesh.faces) = 4
    /\ mesh.faces[1] /= mesh.faces[2]
    /\ mesh.faces[3] /= mesh.faces[4]

\* C6: after triangulate_quadrangles on a mesh with F faces of which Q are
\* quadrangles the mesh has F + Q faces, the cache is empty, the next read
\* gives nb_quadrangles = 0 and nb_triangles = F + Q, and a second
\* application changes nothing.
C6_TriangulateCounts ==
    [][lastOp'.op = "triangulate_quadrangles" =>
         LET nF    == Len(mesh.faces)
             nQ    == Len(QuadrangleIdsOf(mesh.faces))
             read  == read_triangles_quadrangles(mesh')
             again == triangulate_quadrangles(mesh')
         IN  /\ nb_faces(mesh') = nF + nQ
             /\ mesh'.internals = EmptyDict
             /\ Len(read.internals["quadrangles_ids"]) = 0
             /\ Len(read.internals["triangles_ids"]) = nF + nQ
             /\ \A f \in DOMAIN mesh'.faces : mesh'.faces[f][1] = mesh'.faces[f][4]
             /\ again = mesh']_vars

\* C6 witness: triangulate_quadrangles has split a quadrangle of a mesh whose
\* id lists were cached before the call.
C6_Witness ==
    /\ lastOp.op = "triangulate_quadrangles"
    /\ lastOp.arg >= 1
    /\ lastOp.had[2]
    /\ mesh.internals = EmptyDict

\* The shape (rows, columns) of a 2-dimensional array.
ShapeIs(a, columns) == Len(a.shape) = 2 /\ a.shape[2] = columns

\* Some entry of the face array is negative, is no integer, or is not below
\* the number N of vertices.
SomeBadFaceEntry(faces, N) ==
    /\ Len(faces.shape) = 2
    /\ \E f \in DOMAIN faces.rows : \E k \in DOMAIN faces.rows[f] :
          LET h == faces.rows[f][k] IN h < 0 \/ h % 2 # 0 \/ h >= 2 * N

\* C3: a call of the constructor fails, and constructs no mesh, whenever a
\* face index is negative, non-integral or >= N, or the vertex array is not of
\* shape (*, 3), or the face array is not of shape (*, 4); it succeeds
\* whenever all indices are integers in [0, N-1] and both shapes are right,
\* empty arrays included.
C3_ConstructorValidation ==
    ctor.state \in {"returned", "raised"} =>
        LET vertices == init_vertices(ctor.vertices)
            faces == init_faces(ctor.faces)
            invalid == \/ ~ShapeIs(vertices, 3)
                       \/ ~ShapeIs(faces, 4)
                       \/ SomeBadFaceEntry(faces, vertices.shape[1])
        IN  /\ invalid => ctor.state = "raised" /\ mesh = NewMesh(<<>>, <<>>)
            /\ ~invalid => ctor.state = "returned"

\* C7: heal_mesh first invalidates the face properties and then runs the
\* five steps, each once, in the order remove unused vertices, remove
\* degenerate faces, merge duplicate vertices, heal triangles, heal normals:
\* at every position the steps run so far are the first steps of that list,
\* and on return all of them have run.
C7_HealOrder ==
    LET order == <<"invalidate", "remove_unused_vertices", "remove_degenerated_faces",
                   "merge_duplicates", "heal_triangles", "heal_normals">>
    IN  /\ heal.pc \in 0..6
        /\ heal.log = SubSeq(order, 1, heal.pc)
        /\ heal.pc = 1 => ~has_faces_properties(mesh)

\* heal_mesh has returned from a mesh whose face properties were cached.
C7_Witness ==
    /\ heal.pc = 6
    /\ Len(heal.log) = 6
    /\ lastOp.op = "heal_mesh"
    /\ lastOp.had[1]

\* A vertex referenced by no face.
HasUnusedVertex(m) ==
    \E v \in 0..(Len(m.vertices) - 1) : v \notin UsedVertices(m)

\* C8: heal_mesh applied to the result of heal_mesh leaves the vertex array
\* and the face array unchanged, and after one heal_mesh no vertex is
\* unreferenced, no face is degenerate, no two vertices are duplicates and
\* no triangle is stored in a non-canonical encoding.
C8_HealIdempotent ==
    heal.pc = 6 =>
        /\ heal.round = 2 => <<mesh.vertices, mesh.faces>> = heal.healed
        /\ ~HasUnusedVertex(mesh)
        /\ \A f \in DOMAIN mesh.faces : ~IsDegenerated(mesh.vertices, mesh.faces[f])
        /\ \A i, j \in DOMAIN mesh.vertices : mesh.vertices[i] = mesh.vertices[j] => i = j
        /\ \A f \in DOMAIN mesh.faces : HealTriangleRow(mesh.faces[f]) = mesh.faces[f]

\* C9: get_immersed_part returns the empty result when every vertex lies
\* above the free surface or every vertex lies below the bottom; otherwise,
\* when every vertex lies strictly between the two planes, a copy with the
\* vertices and faces of the source and no clipping; otherwise it clips.
\* With the default bottom, a free surface above the maximum z gives the
\* copy and a free surface below the minimum z gives the empty result.
C9_ImmersedDispatch ==
    imm.result # "not called" =>
        LET Z  == {mesh.vertices[i][3] : i \in DOMAIN mesh.vertices}
            fs == imm.free_surface
            sb == imm.sea_bottom
            is_copy == /\ imm.result = "copy"
                       /\ imm.out.vertices = mesh.vertices
                       /\ imm.out.faces = mesh.faces
                       /\ imm.log = <<>>
        IN  /\ IF (\A z \in Z : z > fs) \/ (\A z \in Z : z < sb)
               THEN imm.result = "None"
               ELSE IF \A z \in Z : sb < z /\ z < fs
               THEN is_copy
               ELSE imm.result \in {"clipping", "clipped"}
            /\ (sb = NegInfty /\ Z # {}) =>
                  /\ (\A z \in Z : fs > z) => is_copy
                  /\ (\A z \in Z : fs < z) => imm.result = "None"

\* The steps of the clipping path as claimed, each with the mesh it acts on.
C10_Order(sea_bottom) ==
    << [step |-> "clip_free_surface", on |-> "self"] >>
    \o (IF sea_bottom > NegInfty
        THEN << [step |-> "clip_sea_bottom", on |-> "clipped_mesh"] >> ELSE <<>>)
    \o << [step |-> "remove_unused_vertices", on |-> "clipped_mesh"],
          [step |-> "rename", on |-> "clipped_mesh"] >>

\* C10: on the clipping path the steps run so far are the first steps of:
\* clip against the free surface; if and only if the bottom is finite, clip
\* the result against the bottom; remove the unused vertices of the clipped
\* mesh; rename it.  The returned mesh has no vertex referenced by no face
\* and bears the new name, and no step changes the source mesh or its name.
C10_ClippingOrder ==
    /\ [](imm.result \in {"clipping", "clipped"} =>
            /\ imm.log = SubSeq(C10_Order(imm.sea_bottom), 1, Len(imm.log))
            /\ imm.result = "clipped" =>
                  /\ imm.log = C10_Order(imm.sea_bottom)
                  /\ ~HasUnusedVertex(imm.out)
                  /\ imm.out.name = <<"mesh_0", "_clipped">>)
    /\ [][mesh' = mesh /\ imm'.self_name = <<"mesh_0">>]_vars

\* A mesh cut by both planes has been returned: a crossing point is among
\* its vertices and a vertex of the source is not.
C10_Witness ==
    /\ imm.result = "clipped"
    /\ imm.sea_bottom > NegInfty
    /\ nb_faces(imm.out) > 0
    /\ \E i \in DOMAIN imm.out.vertices :
          \A j \in DOMAIN mesh.vertices : imm.out.vertices[i] # mesh.vertices[j]
    /\ \E j \in DOMAIN mesh.vertices :
          \A i \in DOMAIN imm.out.vertices : imm.out.vertices[i] # mesh.vertices[j]

---------------------------------------------------------------------------
(* Claims C11 to C20.                                                      *)

\* C13: triangle / quadrangle partition.  In every reachable state where
\* the id lists are cached (and so served without recomputation, whatever
\* flip_normals, translate, rotate, mirror, a reassignment of faces or
\* triangulate_quadrangles did before), nb_triangles + nb_quadrangles equals
\* nb_faces, no id is in both lists, and an id is in triangles_ids exactly
\* when the first and last vertex ids of that row of the current face array
\* are equal.
C13_TrianglesQuadranglesPartition ==
    has_triangles_quadrangles(mesh) =>
        LET triangles_ids   == mesh.internals["triangles_ids"]
            quadrangles_ids == mesh.internals["quadrangles_ids"]
            InList(ids, id) == \E i \in DOMAIN ids : ids[i] = id
        IN  /\ Len(triangles_ids) + Len(quadrangles_ids) = nb_faces(mesh)
            /\ \A i \in DOMAIN triangles_ids : ~InList(quadrangles_ids, triangles_ids[i])
            /\ \A id \in 0..(nb_faces(mesh) - 1) :
                  InList(triangles_ids, id) <=> is_triangle(mesh, id)
            /\ \A i \in DOMAIN triangles_ids :
                  triangles_ids[i] \in 0..(nb_faces(mesh) - 1)

\* C13 witness: flip_normals has acted on a mesh with a triangle and a
\* quadrangle whose id lists were cached, and the lists are still served
\* from the cache.
C13_Witness ==
    /\ lastOp.op = "flip_normals"
    /\ lastOp.had[2]
    /\ has_triangles_quadrangles(mesh)
    /\ Len(mesh.internals["triangles_ids"]) > 0
    /\ Len(mesh.internals["quadrangles_ids"]) > 0

TransformOps == {"translate", "rotate", "flip_normals", "mirror"}

\* C14: surface-integral invalidation.  After translate, rotate,
\* flip_normals or mirror, whether or not surface integrals were cached
\* before, has_surface_integrals() is false, and the next
\* get_surface_integrals() stores the integrals computed from the arrays as
\* they are after the operation.
C14_SurfaceIntegralsInvalidated ==
    [][lastOp'.op \in TransformOps =>
          /\ ~has_surface_integrals(mesh')
          /\ FacesIndexable(mesh') =>
                 get_surface_integrals(mesh').internals["surface_integrals"]
                     = compute_faces_integrals(mesh')]_vars

\* C14 witness: a transforming operation has acted on a mesh with faces
\* whose surface integrals were cached.
C14_Witness ==
    /\ lastOp.op \in TransformOps
    /\ lastOp.had_integrals
    /\ nb_faces(mesh) > 0
    /\ ~has_surface_integrals(mesh)

\* C15: flip_normals is an involution.  For every flip_normals step, a
\* second flip_normals gives back the face array from before the first; if
\* face properties were cached, the cached normals after one call are the
\* negation of those before and after two calls are those before; the
\* single call reverses the vertex order of every face, leaves the vertex
\* array unchanged, and keeps triangles triangles and quadrangles
\* quadrangles.
C15_FlipNormalsInvolution ==
    [][lastOp'.op = "flip_normals" =>
          LET twice == flip_normals(mesh')
          IN  /\ twice.faces = mesh.faces
              /\ twice.vertices = mesh.vertices
              /\ has_faces_properties(mesh) =>
                    /\ has_faces_properties(mesh') /\ has_faces_properties(twice)
                    /\ mesh'.internals["faces_normals"]
                           = NegateRows(mesh.internals["faces_normals"])
                    /\ twice.internals["faces_normals"]
                           = mesh.internals["faces_normals"]
              /\ \A f \in DOMAIN mesh.faces :
                    \A k \in 1..4 : mesh'.faces[f][k] = mesh.faces[f][5 - k]
              /\ DOMAIN mesh'.faces = DOMAIN mesh.faces
              /\ mesh'.vertices = mesh.vertices
              /\ \A id \in 0..(nb_faces(mesh) - 1) :
                    is_triangle(mesh', id) <=> is_triangle(mesh, id)]_vars

\* C15 witness: flip_normals has acted on a mesh with a triangle and a
\* quadrangle whose face properties were cached, one of them with a
\* defined, non-zero normal.
C15_Witness ==
    /\ lastOp.op = "flip_normals"
    /\ lastOp.had[1]
    /\ \E t, q \in 0..(nb_faces(mesh) - 1) : is_triangle(mesh, t) /\ ~is_triangle(mesh, q)
    /\ has_faces_properties(mesh)
    /\ \E f \in DOMAIN mesh.faces :
          /\ mesh.internals["faces_normals"][f].den /= 0
          /\ mesh.internals["faces_normals"][f].num /= Zero3

\* C16: translation round trip.  For every translate step by a vector v,
\* translating the result by -v gives back the vertex array from before the
\* first call; both calls leave the face array unchanged; and the face
\* centers read after the two calls equal the face centers read before
\* them.
C16_TranslateRoundTrip ==
    [][lastOp'.op = "translate" =>
          LET back == translate(mesh', Scale(-1, lastOp'.arg))
          IN  /\ back.vertices = mesh.vertices
              /\ mesh'.faces = mesh.faces
              /\ back.faces = mesh.faces
              /\ FacesIndexable(mesh) =>
                    faces_property(back, "faces_centers").internals["faces_centers"]
                        = faces_property(mesh, "faces_centers").internals["faces_centers"]]_vars

\* C16 witness: translate by a non-zero vector has acted on a mesh with
\* faces whose centers had been read before, and the vertices moved.
C16_Witness ==
    /\ lastOp.op = "translate"
    /\ lastOp.arg /= Zero3
    /\ lastOp.had[1]
    /\ nb_faces(mesh) > 0
    /\ FacesIndexable(mesh)
    /\ translate(mesh, Scale(-1, lastOp.arg)).vertices /= mesh.vertices

\* q is the reflection of p across the plane: the middle of p and q lies on
\* the plane and q - p is along the plane's normal.
IsReflection(p, q, plane) ==
    /\ Dot(Add(p, q), plane.normal) = 2 * plane.c
    /\ Cross(Sub(q, p), plane.normal) = Zero3

\* C17: mirror.  For every mirror step, every vertex is replaced by its
\* reflection across the plane, the vertex order of every face is reversed
\* exactly once, and the cache bundle is empty afterwards, whatever was
\* cached before the call (face properties, triangle / quadrangle ids,
\* surface integrals, connectivity).
C17_MirrorClearsCache ==
    [][lastOp'.op = "mirror" =>
          \E plane \in MirrorPlanes :
              /\ DOMAIN mesh'.vertices = DOMAIN mesh.vertices
              /\ \A i \in DOMAIN mesh.vertices :
                    IsReflection(mesh.vertices[i], mesh'.vertices[i], plane)
              /\ DOMAIN mesh'.faces = DOMAIN mesh.faces
              /\ \A f \in DOMAIN mesh.faces :
                    \A k \in 1..4 : mesh'.faces[f][k] = mesh.faces[f][5 - k]
              /\ DOMAIN mesh'.internals = {}]_vars

\* C17 witness: mirror has acted on a mesh with faces that had face
\* properties, id lists, surface integrals and connectivity cached, and
\* some vertex moved.
C17_Witness ==
    /\ lastOp.op = "mirror"
    /\ lastOp.had = <<TRUE, TRUE>>
    /\ lastOp.had_integrals
    /\ lastOp.had_connectivity
    /\ nb_faces(mesh) > 0
    /\ \E plane \in MirrorPlanes : \E i \in DOMAIN mesh.vertices :
          MirrorPoint(mesh.vertices[i], plane) /= mesh.vertices[i]
    /\ DOMAIN mesh.internals = {}

\* The four face properties are all cached or none is.
FacesPropertiesBundled(m) ==
    \/ FacesPropertiesKeys \subseteq DOMAIN m.internals
    \/ FacesPropertiesKeys \cap DOMAIN m.internals = {}

\* C19: face properties are cached as one bundle.  In every reachable state
\* the four entries are all present or all absent; a read of any one of
\* them while they are absent makes exactly one batched computation, which
\* fills all four from the current arrays; a read while they are present
\* makes no computation and leaves the mesh as it is.
C19_FacesPropertiesBundle ==
    /\ [](FacesPropertiesBundled(mesh))
    /\ [][(lastOp'.op = "faces_property" /\ ~lastOp'.err) =>
             IF lastOp'.arg \in DOMAIN mesh.internals
             THEN /\ lastOp'.computed = 0
                  /\ mesh' = mesh
             ELSE /\ lastOp'.computed = 1
                  /\ \A k \in FacesPropertiesKeys :
                        /\ k \in DOMAIN mesh'.internals
                        /\ mesh'.internals[k] = compute_faces_properties(mesh)[k]
                  /\ faces_property_computations(mesh', lastOp'.arg) = 0]_vars

\* C19 witness: a face property has been read on a mesh with faces whose
\* cache did not hold it: one computation was made and filled the four
\* entries.
C19_Witness ==
    /\ lastOp.op = "faces_property"
    /\ lastOp.computed = 1
    /\ nb_faces(mesh) > 0
    /\ FacesPropertiesKeys \subseteq DOMAIN mesh.internals

\* C19 second witness state: a read served from the cache.
C19_WitnessCached ==
    /\ lastOp.op = "faces_property"
    /\ ~lastOp.err
    /\ lastOp.computed = 0
    /\ nb_faces(mesh) > 0

\* C20: automatic names are unique.  Over any sequence of constructions
\* without a name, constructions with a name, constructions that fail
\* validation and extract_faces calls, no two meshes that were constructed
\* without a name have received the same automatic name.
C20_AutomaticNamesUnique ==
    \A i, j \in DOMAIN names.meshes :
        (/\ i /= j
         /\ names.meshes[i].auto /= <<>>
         /\ names.meshes[j].auto /= <<>>)
        => names.meshes[i].auto /= names.meshes[j].auto

\* C20 witness: from a counter at 9, a mesh was constructed without a name
\* (mesh_9), a construction without a name failed (consuming 10), a mesh was
\* extracted (named mesh_11 at its construction, renamed afterwards), and a
\* mesh was constructed under the name mesh_1.
C20_Witness ==
    /\ names.ids = 12
    /\ \E i, j, k \in DOMAIN names.meshes :
          /\ names.meshes[i].auto = AutoName(9)
          /\ names.meshes[i].name = AutoName(9)
          /\ names.meshes[j].auto = AutoName(11)
          /\ names.meshes[j].name = ExtractedName(AutoName(9))
          /\ names.meshes[k].auto = <<>>
          /\ names.meshes[k].name = AutoName(1)
    /\ \A i \in DOMAIN names.meshes : names.meshes[i].auto /= AutoName(10)

\* C18: no shared mutable state.  After m2 = m.copy(), m2 =
\* m.extract_faces(ids) or m2 = Mesh(m.vertices, m.faces), every mutating
\* operation on one of the two meshes (a reassignment, translate, rotate,
\* flip_normals, mirror, triangulate_quadrangles) leaves the vertex array,
\* the face array and the cached values of the other as they were; and
\* copy, extract_faces and the construction leave m as it was.
C18_NoSharedState ==
    [][/\ (pair.made = "none" /\ pair'.made /= "none") => mesh' = mesh
       /\ (pair.made /= "none" /\ pair'.target = "m2") => mesh' = mesh
       /\ (pair.made /= "none" /\ pair'.target = "m") => pair'.m2 = pair.m2]_vars

\* C18 witness: m2 was constructed from the arrays of m, whose face
\* properties are cached; the vertices of m2 have since been changed and
\* its quadrangles triangulated, and the two meshes differ in both arrays.
C18_Witness ==
    /\ pair.made = "construct"
    /\ pair.target = "m2"
    /\ pair.op = "triangulate_quadrangles"
    /\ has_faces_properties(mesh)
    /\ pair.m2.vertices /= mesh.vertices
    /\ pair.m2.faces /= mesh.faces
    /\ Len(pair.m2.faces) > Len(mesh.faces)

\* C18 second witness state: a copy of m, cache included, whose cached
\* normals were negated in place by flip_normals while those of m stayed.
C18_WitnessCopy ==
    /\ pair.made = "copy"
    /\ pair.target = "m2"
    /\ pair.op = "flip_normals"
    /\ has_faces_properties(mesh)
    /\ has_faces_properties(pair.m2)
    /\ pair.m2.internals["faces_normals"] /= mesh.internals["faces_normals"]

\* What the claim says of e = m.extract_faces(ids): its faces are the
\* selected faces in the order given (vertex for vertex), its number of
\* vertices is the number of distinct vertex indices the selected faces
\* hold, every entry of its face array is in 0..k-1, and every vertex is
\* referenced by a face.
ExtractedAsClaimed(m, ids, e) ==
    LET selected == [j \in DOMAIN ids |-> At(m.faces, ids[j])]
        indices  == {selected[j][k] : j \in DOMAIN ids, k \in 1..4}
        kk       == nb_vertices(e)
    IN  /\ nb_faces(e) = Len(ids)
        /\ \A j \in DOMAIN ids : \A k \in 1..4 :
              /\ e.faces[j][k] \in 0..(kk - 1)
              /\ e.vertices[e.faces[j][k] + 1] = At(m.vertices, selected[j][k])
        /\ kk = Cardinality(indices)
        /\ \A v \in 0..(kk - 1) : \E j \in DOMAIN ids : \E k \in 1..4 : e.faces[j][k] = v

\* C11: extract_faces(ids) returns a new mesh whose faces are exactly the
\* selected faces, in the order given, whose vertex count k is the number of
\* distinct vertex indices referenced by the selected faces, whose face
\* entries all lie in 0..k-1 and whose vertices are all referenced.
C11_ExtractFaces ==
    [][(pair.made = "none" /\ pair'.made = "extract") =>
          ExtractedAsClaimed(mesh, pair'.ids, pair'.m2)]_vars

\* The same for the meshes whose face entries are all in 0..nb_vertices-1
\* (the invariant of C2): there the extraction is as claimed.
C11_ExtractFacesOfValidMesh ==
    [][(pair.made = "none" /\ pair'.made = "extract" /\ C2_FaceIndexInvariant) =>
          ExtractedAsClaimed(mesh, pair'.ids, pair'.m2)]_vars

\* An extraction of two faces, one of them listed twice or both, from a
\* mesh that satisfies the invariant of C2.
C11_ValidExtractionReached ==
    /\ pair.made = "extract"
    /\ pair.ops = 0
    /\ C2_FaceIndexInvariant
    /\ Len(pair.ids) = 2
    /\ nb_vertices(pair.m2) = 4

\* The two meshes have the same faces, each face taken as the 4-tuple of
\* the coordinates of its vertices.
SameFaceTuples(a, b) ==
    LET Coordinates(m, f) == [k \in 1..4 |-> At(m.vertices, m.faces[f][k])]
    IN  /\ FacesIndexable(a) /\ FacesIndexable(b)
        /\ \A f \in DOMAIN a.faces : \E g \in DOMAIN b.faces :
              Coordinates(a, f) = Coordinates(b, g)
        /\ \A g \in DOMAIN b.faces : \E f \in DOMAIN a.faces :
              Coordinates(a, f) = Coordinates(b, g)

\* The mesh with the rows of its face array permuted by p.
RowsPermuted(m, p) == [m EXCEPT !.faces = [f \in DOMAIN m.faces |-> m.faces[p[f]]]]

\* The mesh with its vertices renumbered by s: vertex i (from 1) moves to
\* the place s[i], and the face array is rewritten to match.
Renumbered(m, s) ==
    LET inv(j) == CHOOSE i \in DOMAIN s : s[i] = j
        place(id) == IF id < 0 THEN id + Len(m.vertices) + 1 ELSE id + 1
    IN  [m EXCEPT !.vertices = [j \in DOMAIN m.vertices |-> m.vertices[inv(j)]],
                  !.faces = [f \in DOMAIN m.faces |->
                               [k \in 1..4 |-> s[place(m.faces[f][k])] - 1]]]

\* What the claim says of the meshes a and b.
EqualityAsClaimed(a, b) ==
    /\ Mesh_eq(a, a) = "True"
    /\ Mesh_eq(a, b) = Mesh_eq(b, a)
    /\ (Mesh_eq(a, b) = "True") <=> SameFaceTuples(a, b)
    /\ \A p \in Permutations(DOMAIN a.faces) : Mesh_eq(a, RowsPermuted(a, p)) = "True"
    /\ \A s \in Permutations(DOMAIN a.vertices) : Mesh_eq(a, Renumbered(a, s)) = "True"
    /\ Mesh_eq(a, b) = "True" => Mesh_hash(a) = Mesh_hash(b)

\* C12: mesh equality.  Two meshes are equal exactly when they have the
\* same set of faces, each face taken as its 4-tuple of vertex coordinates;
\* equality is reflexive and symmetric, unchanged by a permutation of the
\* rows of the face array and by a renumbering of the vertices applied to
\* both arrays; equal meshes have equal hashes.
C12_MeshEquality ==
    EqualityAsClaimed(mesh, IF pair.made = "none" THEN mesh ELSE pair.m2)

\* The same for the meshes whose vertex ids all index the vertex array:
\* there equality is as claimed.
C12_MeshEqualityOfIndexableMeshes ==
    (FacesIndexable(mesh) /\ FacesIndexable(pair.m2)) =>
        EqualityAsClaimed(mesh, IF pair.made = "none" THEN mesh ELSE pair.m2)

\* Two meshes of two faces each that are equal although their face arrays
\* differ, and two meshes that are not equal.
C12_EqualMeshesReached ==
    /\ pair.made /= "none"
    /\ nb_faces(mesh) = 2
    /\ FacesIndexable(mesh) /\ FacesIndexable(pair.m2)
    /\ Mesh_eq(mesh, pair.m2) = "True"
    /\ mesh.faces /= pair.m2.faces

C12_UnequalMeshesReached ==
    /\ pair.made /= "none"
    /\ Mesh_eq(mesh, pair.m2) = "False"

---------------------------------------------------------------------------
(* extract_faces with its two return forms, on meshes whose faces leave    *)
(* some vertices out.                                                      *)

\* What extract_faces returns: the extracted mesh, with id_v when
\* return_index is set.
extract_faces_return(m, id_faces_to_extract, return_index) ==
    IF return_index
    THEN [mesh |-> extract_faces(m, id_faces_to_extract),
          id_v |-> extract_id_v(m, id_faces_to_extract)]
    ELSE [mesh |-> extract_faces(m, id_faces_to_extract)]

\* Face arrays that the constructor accepts with four vertices: faces that
\* leave a vertex out, in both orientations, next to a quadrangle.
ExtractInputFaces ==
    {<< <<1, 2, 3, 1>> >>,
     << <<0, 1, 2, 3>>, <<1, 2, 3, 1>> >>,
     << <<3, 2, 0, 3>>, <<0, 1, 3, 0>> >>,
     << <<0, 2, 3, 0>>, <<3, 1, 0, 2>>, <<2, 3, 2, 3>> >>}

\* The lists of face ids given to extract_faces.
ExtractIds == {<<>>, <<0>>, <<1>>, <<1, 0>>, <<0, 0>>, <<-1>>, <<2, 0>>}

InitExtract ==
    /\ \E F \in ExtractInputFaces :
          LET vertices == VertexArray([i \in 1..4 |-> BasePoint(i - 1)])
          IN  /\ init_accepts(vertices, FaceArray(F))
              /\ mesh = Mesh_init(vertices, FaceArray(F))
    /\ lastOp = OpPlain("init")
    /\ ctor = NoCall
    /\ heal = NoHeal
    /\ imm = NoImmersed
    /\ names = NoNames
    /\ pair = NoPair

\* The state after m.extract_faces(ids, return_index): IndexError and
\* nothing returned for ids that do not index the arrays.
ExtractAfter(id_faces_to_extract, return_index) ==
    IF extract_faces_raises(mesh, id_faces_to_extract)
    THEN [pair   |-> [NoPair EXCEPT !.ids = id_faces_to_extract, !.op = "extract_faces"],
          lastOp |-> [OpPlain("extract_faces") EXCEPT !.err = TRUE]]
    ELSE LET r == extract_faces_return(mesh, id_faces_to_extract, return_index)
         IN  [pair   |-> [NoPair EXCEPT !.made = "extract", !.m2 = r.mesh,
                                        !.ids = id_faces_to_extract,
                                        !.op = "extract_faces"],
              lastOp |-> [OpPlain("extract_faces") EXCEPT !.arg = r]]

\* e = m.extract_faces(ids)
ExtractFacesOnly ==
    /\ UNCHANGED <<mesh, ctor, heal, imm, names>>
    /\ \E id_faces_to_extract \in ExtractIds :
          LET after == ExtractAfter(id_faces_to_extract, FALSE)
          IN  pair' = after.pair /\ lastOp' = after.lastOp

\* e, id_v = m.extract_faces(ids, return_index=True)
ExtractFacesReturnIndex ==
    /\ UNCHANGED <<mesh, ctor, heal, imm, names>>
    /\ \E id_faces_to_extract \in ExtractIds :
          LET after == ExtractAfter(id_faces_to_extract, TRUE)
          IN  pair' = after.pair /\ lastOp' = after.lastOp

NextExtract ==
    \/ SetVertices
    \/ SetFaces
    \/ ExtractFacesOnly
    \/ ExtractFacesReturnIndex

SpecExtract == InitExtract /\ [][NextExtract]_vars

---------------------------------------------------------------------------
(* The round trip through the set of faces: as_set_of_faces, then          *)
(* from_set_of_faces, which iterates over the set in an order the language *)
(* does not fix.                                                           *)

\* The faces of a mesh of the round trip.
MaxSetF == 2

\* The sequences that list every element of S once: the orders in which a
\* loop can iterate over the set.
Orders(S) ==
    {s \in [1..Cardinality(S) -> S] : \A e \in S : \E i \in DOMAIN s : s[i] = e}

\* One pass of the inner loop of from_set_of_faces: the id of the vertex in
\* the list (vertices.index), the vertex appended first when it is new.
from_set_of_faces_vertex(vertices, vertex) ==
    IF \E i \in DOMAIN vertices : vertices[i] = vertex
    THEN [vertices |-> vertices,
          i |-> (CHOOSE i \in DOMAIN vertices :
                    /\ vertices[i] = vertex
                    /\ \A j \in DOMAIN vertices : vertices[j] = vertex => i <= j) - 1]
    ELSE [vertices |-> Append(vertices, vertex), i |-> Len(vertices)]

RECURSIVE from_set_of_faces_lists(_, _, _)
\* The outer loop of from_set_of_faces over the faces left in `order`: the
\* lists vertices and faces when the loop ends.
from_set_of_faces_lists(order, vertices, faces) ==
    IF order = <<>> THEN [vertices |-> vertices, faces |-> faces]
    ELSE LET face == Head(order)
             v1 == from_set_of_faces_vertex(vertices, face[1])
             v2 == from_set_of_faces_vertex(v1.vertices, face[2])
             v3 == from_set_of_faces_vertex(v2.vertices, face[3])
             v4 == from_set_of_faces_vertex(v3.vertices, face[4])
         IN  from_set_of_faces_lists(Tail(order), v4.vertices,
                                     Append(faces, <<v1.i, v2.i, v3.i, v4.i>>))

\* np.array(rows) of a list of rows of `columns` numbers: an empty list
\* makes an array of shape (0,).
ListArray(rows, columns) ==
    IF rows = <<>> THEN [shape |-> <<0>>, rows |-> <<>>]
    ELSE [shape |-> <<Len(rows), columns>>, rows |-> rows]

\* The arguments from_set_of_faces hands to Mesh(vertices=..., faces=...),
\* for the set iterated in the given order (face entries in halves).
from_set_of_faces_args(order) ==
    LET lists == from_set_of_faces_lists(order, <<>>, <<>>)
    IN  [vertices |-> ListArray(lists.vertices, 3),
         faces    |-> ListArray([f \in DOMAIN lists.faces |->
                                   [k \in 1..4 |-> 2 * lists.faces[f][k]]], 4)]

\* Rows of the meshes of the round trip, over five vertices of which the
\* first and the last have the same coordinates.
FaceSetRows ==
    {<<0, 1, 2, 3>>, <<0, 1, 2, 0>>, <<4, 1, 2, 3>>, <<3, 2, 1, 0>>, <<1, 2, 3, 4>>}

InitFaceSet ==
    /\ \/ mesh = Mesh_init(VertexArray(<<>>), FaceArray(<<>>))
       \/ \E F \in SeqsUpTo(FaceSetRows, MaxSetF) :
             LET vertices == VertexArray([i \in 1..5 |-> BasePoint(i - 1)])
             IN  /\ init_accepts(vertices, FaceArray(F))
                 /\ mesh = Mesh_init(vertices, FaceArray(F))
    /\ lastOp = OpPlain("init")
    /\ ctor = NoCall
    /\ heal = NoHeal
    /\ imm = NoImmersed
    /\ names = NoNames
    /\ pair = NoPair

\* m2 = Mesh.from_set_of_faces(m.as_set_of_faces()): the IndexError of
\* as_set_of_faces, or the error of the constructor, or the new mesh.
RoundTripAfter(order) ==
    LET args == from_set_of_faces_args(order)
        call == [NoPair EXCEPT !.op = "from_set_of_faces"]
    IN  IF init_accepts(args.vertices, args.faces)
        THEN [pair   |-> [call EXCEPT !.made = "from_set_of_faces",
                                      !.m2 = Mesh_init(args.vertices, args.faces)],
              lastOp |-> OpPlain("from_set_of_faces")]
        ELSE [pair   |-> call,
              lastOp |-> [OpPlain("from_set_of_faces") EXCEPT !.err = TRUE, !.arg = "Mesh"]]

FromSetOfFaces ==
    /\ UNCHANGED <<mesh, ctor, heal, imm, names>>
    /\ IF as_set_of_faces_raises(mesh)
       THEN /\ pair' = [NoPair EXCEPT !.op = "from_set_of_faces"]
            /\ lastOp' = [OpPlain("from_set_of_faces") EXCEPT
                             !.err = TRUE, !.arg = "as_set_of_faces"]
       ELSE \E order \in Orders(as_set_of_faces(mesh)) :
               LET after == RoundTripAfter(order)
               IN  pair' = after.pair /\ lastOp' = after.lastOp

NextFaceSet ==
    \/ SetVertices
    \/ SetFaces
    \/ FromSetOfFaces

SpecFaceSet == InitFaceSet /\ [][NextFaceSet]_vars

---------------------------------------------------------------------------
(* Claims C21 to C24.                                                      *)

\* The connectivity entries of the mesh that are cached.
ConnectivityCached(m) == ConnectivityKeys \cap DOMAIN m.internals

\* C21: connectivity is cached as one bundle and never goes stale.  In every
\* reachable state the entries v_v, v_f, f_f and boundaries are all present
\* or all absent, and when present each equals what a fresh computation
\* from the current face array gives, the boundary loops with their vertex
\* order included.
C21_ConnectivityNeverStale ==
    /\ ConnectivityCached(mesh) \in {{}, ConnectivityKeys}
    /\ \A key \in ConnectivityCached(mesh) :
          mesh.internals[key] = connectivity(mesh)[key]

\* The loop read backwards from its first vertex.
ReversedLoop(loop) ==
    [i \in DOMAIN loop |-> IF i = 1 THEN loop[1] ELSE loop[Len(loop) + 2 - i]]

\* C21 without the boundary loops: the bundle is whole and the three
\* adjacency tables are those of the current face array.
C21_AdjacencyNeverStale ==
    /\ ConnectivityCached(mesh) \in {{}, ConnectivityKeys}
    /\ \A key \in ConnectivityCached(mesh) \ {"boundaries"} :
          mesh.internals[key] = connectivity(mesh)[key]

\* The state C21 fails in: flip_normals has acted on a mesh whose
\* connectivity was cached, the entries are still cached, and the cached
\* loops are the fresh ones read backwards.
C21_StaleLoopsReached ==
    /\ lastOp.op = "flip_normals"
    /\ lastOp.had_connectivity
    /\ has_connectivity(mesh)
    /\ mesh.internals["boundaries"] /= connectivity(mesh)["boundaries"]
    /\ mesh.internals["boundaries"] =
          [i \in DOMAIN connectivity(mesh)["boundaries"] |->
              ReversedLoop(connectivity(mesh)["boundaries"][i])]

\* C22: get_immersed_part does not fail on a well-formed mesh.  For every
\* mesh the constructor accepts, the empty mesh included, and every
\* free_surface and sea_bottom, the call gives the empty result, a copy or a
\* clipped mesh, never an error.
C22_ImmersedPartNeverFails ==
    /\ init_accepts(VertexArray(mesh.vertices), FaceArray(mesh.faces))
    /\ imm.result \in {"not called", "None", "copy", "clipping", "clipped"}

\* C22 for the meshes with at least one vertex.
C22_ImmersedPartOfNonEmptyMesh ==
    nb_vertices(mesh) > 0 =>
        /\ init_accepts(VertexArray(mesh.vertices), FaceArray(mesh.faces))
        /\ imm.result \in {"not called", "None", "copy", "clipping", "clipped"}

\* The state C22 fails in: get_immersed_part has been called on the empty
\* mesh, which the constructor accepts, and has raised.
C22_EmptyMeshRaises ==
    /\ lastOp.op = "get_immersed_part"
    /\ mesh = Mesh_init(VertexArray(<<>>), FaceArray(<<>>))
    /\ init_accepts(VertexArray(<<>>), FaceArray(<<>>))
    /\ imm.result = "ValueError"

\* The coordinates of the four vertices of a face of m, position by
\* position.
FaceCoordinates(m, face) == [k \in 1..4 |-> At(m.vertices, face[k])]

\* e has one face per selected face, with the coordinates of the source
\* face position by position.
SameGeometry(m, ids, e) ==
    /\ nb_faces(e) = Len(ids)
    /\ \A j \in DOMAIN ids :
          FaceCoordinates(e, e.faces[j]) = FaceCoordinates(m, At(m.faces, ids[j]))

\* The row is a triangle for is_triangle and _triangles_quadrangles: its
\* first and last ids are equal.
IsTriangleRow(face) == face[1] = face[4]

\* Every selected triangle of m is a triangle of e and every selected
\* quadrangle a quadrangle.
SameKinds(m, ids, e) ==
    \A j \in DOMAIN ids : IsTriangleRow(e.faces[j]) <=> IsTriangleRow(At(m.faces, ids[j]))

\* id_v is strictly increasing, has one entry per vertex of e, and
\* e.vertices[i] = m.vertices[id_v[i]] for every i.
IndexMapping(m, e, id_v) ==
    /\ \A i \in DOMAIN id_v : \A j \in DOMAIN id_v : i < j => id_v[i] < id_v[j]
    /\ Len(id_v) = nb_vertices(e)
    /\ \A i \in DOMAIN id_v :
          /\ id_v[i] \in 0..(nb_vertices(m) - 1)
          /\ e.vertices[i] = m.vertices[id_v[i] + 1]

\* The step is a call of extract_faces that returns.
ExtractFacesReturned == lastOp'.op = "extract_faces" /\ ~lastOp'.err

\* C23: extract_faces preserves geometry and reports the index mapping.  For
\* every selected face the coordinates of its four vertices in the extracted
\* mesh equal, position by position, those of the face in the source mesh,
\* triangles stay triangles and quadrangles stay quadrangles; with
\* return_index the returned id_v is strictly increasing, has one entry per
\* extracted vertex, and extracted.vertices[i] = source.vertices[id_v[i]].
C23_ExtractFacesGeometry ==
    [][ExtractFacesReturned =>
          /\ SameGeometry(mesh, pair'.ids, pair'.m2)
          /\ SameKinds(mesh, pair'.ids, pair'.m2)
          /\ "id_v" \in DOMAIN lastOp'.arg =>
                IndexMapping(mesh, pair'.m2, lastOp'.arg.id_v)]_vars

\* C23 for the meshes whose face entries are all in 0..nb_vertices-1 (the
\* invariant of C2).
C23_ExtractFacesGeometryOfValidMesh ==
    [][(ExtractFacesReturned /\ C2_FaceIndexInvariant) =>
          /\ SameGeometry(mesh, pair'.ids, pair'.m2)
          /\ SameKinds(mesh, pair'.ids, pair'.m2)
          /\ "id_v" \in DOMAIN lastOp'.arg =>
                IndexMapping(mesh, pair'.m2, lastOp'.arg.id_v)]_vars

\* C23 without the kinds of the faces, for every mesh: the coordinates and
\* the index mapping.
C23_CoordinatesAndIndexMapping ==
    [][ExtractFacesReturned =>
          /\ SameGeometry(mesh, pair'.ids, pair'.m2)
          /\ "id_v" \in DOMAIN lastOp'.arg =>
                IndexMapping(mesh, pair'.m2, lastOp'.arg.id_v)]_vars

\* The state C23 fails in: a quadrangle of the source, with the ids -1 and
\* nb_vertices - 1 at its ends, has been extracted as a triangle.
C23_QuadrangleExtractedAsTriangle ==
    /\ lastOp.op = "extract_faces"
    /\ ~lastOp.err
    /\ \E j \in DOMAIN pair.ids :
          /\ ~IsTriangleRow(At(mesh.faces, pair.ids[j]))
          /\ IsTriangleRow(pair.m2.faces[j])
          /\ At(mesh.faces, pair.ids[j])[1] = -1
          /\ At(mesh.faces, pair.ids[j])[4] = nb_vertices(mesh) - 1

\* An extraction from a mesh that satisfies the invariant of C2, with
\* return_index, that leaves a vertex out and renumbers the one after it.
C23_RenumberedExtractionReached ==
    /\ lastOp.op = "extract_faces"
    /\ ~lastOp.err
    /\ C2_FaceIndexInvariant
    /\ "id_v" \in DOMAIN lastOp.arg
    /\ \E i \in DOMAIN lastOp.arg.id_v : lastOp.arg.id_v[i] /= i - 1
    /\ nb_faces(pair.m2) > 0

\* The coordinates the faces of m refer to.
FaceSetCoordinates(m) ==
    {At(m.vertices, m.faces[f][k]) : f \in DOMAIN m.faces, k \in 1..4}

\* r is a mesh equal to m whose vertex array holds each coordinate of the
\* faces once and no other.
RoundTripAsClaimed(m, r) ==
    /\ init_accepts(VertexArray(r.vertices), FaceArray(r.faces))
    /\ Mesh_eq(r, m) = "True"
    /\ \A i \in DOMAIN r.vertices : \A j \in DOMAIN r.vertices :
          r.vertices[i] = r.vertices[j] => i = j
    /\ {r.vertices[i] : i \in DOMAIN r.vertices} = FaceSetCoordinates(m)

\* C24: the round trip through the face-set representation.  For every
\* mesh m, Mesh.from_set_of_faces(m.as_set_of_faces()) returns a mesh that
\* passes the constructor's validation, is equal to m, and has each distinct
\* vertex coordinate exactly once in its vertex array.
C24_FaceSetRoundTrip ==
    [][lastOp'.op = "from_set_of_faces" =>
          /\ ~lastOp'.err
          /\ pair'.made = "from_set_of_faces"
          /\ RoundTripAsClaimed(mesh, pair'.m2)]_vars

\* C24 for the meshes with at least one face whose vertex ids all index the
\* vertex array.
C24_FaceSetRoundTripOfMeshWithFaces ==
    [][(lastOp'.op = "from_set_of_faces" /\ nb_faces(mesh) > 0 /\ FacesIndexable(mesh)) =>
          /\ ~lastOp'.err
          /\ pair'.made = "from_set_of_faces"
          /\ RoundTripAsClaimed(mesh, pair'.m2)]_vars

\* The state C24 fails in: the round trip of a mesh without faces that the
\* constructor accepts has raised in the constructor.
C24_NoFacesRaises ==
    /\ lastOp.op = "from_set_of_faces"
    /\ lastOp.err
    /\ lastOp.arg = "Mesh"
    /\ nb_faces(mesh) = 0
    /\ init_accepts(VertexArray(mesh.vertices), FaceArray(mesh.faces))

\* A round trip of a mesh with valid ids that returned two faces, merged
\* two vertices with the same coordinates and renumbered the faces.
C24_MergingRoundTripReached ==
    /\ lastOp.op = "from_set_of_faces"
    /\ ~lastOp.err
    /\ C2_FaceIndexInvariant
    /\ nb_faces(pair.m2) = 2
    /\ nb_vertices(pair.m2) < Cardinality(UNION {{mesh.faces[f][k] : k \in 1..4} : f \in DOMAIN mesh.faces})
    /\ pair.m2.faces /= mesh.faces

====
